---------------------------- MODULE Spec2Model ----------------------------
(***************************************************************************)
(* Model of the gamegraphicsjs transform core: the Stamp and Delta image   *)
(* codecs, the bitplane codec and the tile compositor.                     *)
(*                                                                         *)
(* Every codec is a synchronous function from bytes to bytes, so each is   *)
(* an operator that follows the control flow of its source function, and   *)
(* the state machine applies the handlers to inputs drawn from bounded     *)
(* sets.  Buffers are sequences of bytes; a JavaScript index i is the      *)
(* position i + 1 of the sequence.                                         *)
(***************************************************************************)
EXTENDS Integers, Sequences, FiniteSets, TLC

VARIABLES
    params,   \* the arguments of the call under way besides the data
    image,    \* the in-memory Image (or list of tiles) handed to the program
    content,  \* the encoded bytes: a file, a planar buffer, a composed canvas
    result,   \* what the last handler returned, or the error it threw
    pc        \* position in the sequence of handler calls

vars == <<params, image, content, result, pc>>

(***************************************************************************)
(* JavaScript values.                                                      *)
(***************************************************************************)

\* `undefined` (and NaN, which arithmetic on undefined yields).
Undefined == -100000

\* What a Uint8Array stores when assigned v: NaN/undefined become 0,
\* numbers are reduced modulo 256.
ToByte(v) == IF v = Undefined THEN 0 ELSE v % 256

\* array[i] for a 0-based index: undefined outside the array.
At(s, i) == IF i >= 0 /\ i < Len(s) THEN s[i + 1] ELSE Undefined

\* TypedArray.prototype.slice(from, to) with 0 <= from.
Slice(s, from, to) ==
    LET hi == IF to > Len(s) THEN Len(s) ELSE to
    IN  IF from >= hi THEN <<>> ELSE SubSeq(s, from + 1, hi)

Max(a, b) == IF a >= b THEN a ELSE b

RECURSIVE BitAnd(_, _)
BitAnd(a, b) ==
    IF a = 0 \/ b = 0 THEN 0
    ELSE (a % 2) * (b % 2) + 2 * BitAnd(a \div 2, b \div 2)

RECURSIVE BitOr(_, _)
BitOr(a, b) ==
    IF a = 0 THEN b
    ELSE IF b = 0 THEN a
    ELSE Max(a % 2, b % 2) + 2 * BitOr(a \div 2, b \div 2)

RECURSIVE Pow2(_)
Pow2(n) == IF n = 0 THEN 1 ELSE 2 * Pow2(n - 1)

\* a >> n and (a << n) for non-negative a.
Shr(a, n) == a \div Pow2(n)
Shl(a, n) == a * Pow2(n)

\* F(lo) \o ... \o F(hi), split in halves to keep the evaluation shallow.
RECURSIVE ConcatOver(_, _, _)
ConcatOver(F(_), lo, hi) ==
    IF lo > hi THEN <<>>
    ELSE IF lo = hi THEN F(lo)
    ELSE LET mid == (lo + hi) \div 2
         IN  ConcatOver(F, lo, mid) \o ConcatOver(F, mid + 1, hi)

\* n copies of v, as a sequence.
Repeat(v, n) == SubSeq([i \in 1..n |-> v], 1, n)

(***************************************************************************)
(* RecordBuffer integer fields.                                            *)
(***************************************************************************)

WriteU16le(v) == LET u == ToByte(v) + 256 * ((IF v = Undefined THEN 0 ELSE v \div 256) % 256)
                 IN  <<u % 256, u \div 256>>
ReadU16le(s, pos) == s[pos + 1] + 256 * s[pos + 2]

WriteS16le(v) == LET u == IF v = Undefined THEN 0 ELSE v % 65536
                 IN  <<u % 256, u \div 256>>
ReadS16le(s, pos) ==
    LET u == s[pos + 1] + 256 * s[pos + 2]
    IN  IF u >= 32768 THEN u - 65536 ELSE u

\* The error values the handlers throw, by message.
Throw(msg) == [kind |-> "error", error |-> msg]

(***************************************************************************)
(* Stamp image (formats/img-stp.js).                                       *)
(***************************************************************************)

STP_V1_HEADER_SIZE_BYTES == 10
STP_V2_HEADER_SIZE_BYTES == 8
MAX_RUNLENGTH_TRANSPARENCY == 127
MAX_RUNLENGTH_OPAQUE == 63
MAX_DIRECT_SEQUENCE_LEN == 63

\* metadata().limits.transparentIndex, which readByVersion uses.
StpTransparentIndex == 255

\* this.metadata().transparentIndex, which writeByVersion uses: the metadata
\* object has no such top-level property, so the value is undefined.
StpWriterTransparentIndex == Undefined

StpHeaderSize(stpVersion) ==
    IF stpVersion = 1 THEN STP_V1_HEADER_SIZE_BYTES ELSE STP_V2_HEADER_SIZE_BYTES

\* One iteration of the decode loop of readByVersion.
StpReadStep(st, main) ==
    LET byte == At(main, st.inputPos) IN
    IF st.directCopySeq THEN
        [st EXCEPT !.out = Append(@, ToByte(byte)),
                   !.count = @ - 1,
                   !.directCopySeq = (st.count - 1 # 0),
                   !.inputPos = @ + 1]
    ELSE IF st.repeatSeq THEN
        LET room == st.outLen - Len(st.out)
            n == IF st.count <= 0 THEN 0
                 ELSE IF st.count < room THEN st.count ELSE room
        IN  [st EXCEPT !.out = @ \o Repeat(ToByte(byte), n),
                       !.count = @ - n,
                       !.repeatSeq = FALSE,
                       !.inputPos = @ + 1]
    ELSE IF st.transparencySeq THEN
        LET room == st.outLen - Len(st.out)
            n == IF st.count <= 0 THEN 0
                 ELSE IF st.count < room THEN st.count ELSE room
        IN  [st EXCEPT !.out = @ \o Repeat(StpTransparentIndex, n),
                       !.count = @ - n,
                       !.transparencySeq = FALSE]
    ELSE IF BitAnd(byte, 128) = 128 THEN
        [st EXCEPT !.count = BitAnd(byte, 127),
                   !.transparencySeq = TRUE,
                   !.inputPos = @ + 1]
    ELSE IF BitAnd(byte, 192) = 64 THEN
        [st EXCEPT !.count = BitAnd(byte, 63),
                   !.repeatSeq = TRUE,
                   !.inputPos = @ + 1]
    ELSE
        [st EXCEPT !.count = byte,
                   !.directCopySeq = TRUE,
                   !.inputPos = @ + 1]

\* The loop condition of readByVersion, and one that does not look at the
\* output position.
StpReadMoreInputOnly(st, main) == st.inputPos < Len(main) \/ st.transparencySeq
StpReadMore(st, main) ==
    (st.inputPos < Len(main) \/ st.transparencySeq) /\ Len(st.out) < st.outLen

\* Up to n iterations of the decode loop, split in halves to keep the
\* evaluation shallow.
RECURSIVE StpReadIterate(_, _, _)
StpReadIterate(st, main, n) ==
    IF n = 0 \/ ~StpReadMore(st, main) THEN st
    ELSE IF n = 1 THEN StpReadStep(st, main)
    ELSE StpReadIterate(StpReadIterate(st, main, n \div 2), main, n - n \div 2)

\* The decode loop of readByVersion, run until its condition fails.
RECURSIVE StpReadLoop(_, _)
StpReadLoop(st, main) ==
    IF StpReadMore(st, main)
    THEN StpReadLoop(StpReadIterate(st, main, Len(main) + 1), main)
    ELSE st

\* The decoder state before the first iteration.
StpReadStart(main, stpVersion) ==
    LET hdr == StpHeaderSize(stpVersion) - 8 IN
    [inputPos |-> StpHeaderSize(stpVersion),
     outLen |-> ReadU16le(main, hdr) * ReadU16le(main, hdr + 2),
     out |-> <<>>,
     directCopySeq |-> FALSE, repeatSeq |-> FALSE, transparencySeq |-> FALSE,
     count |-> 0]

\* readByVersion without the check that the frame was filled.
readByVersionUnchecked(main, stpVersion) ==
    IF Len(main) < StpHeaderSize(stpVersion) THEN Throw("RangeError")
    ELSE
        LET hdr == StpHeaderSize(stpVersion) - 8
            st == StpReadLoop(StpReadStart(main, stpVersion), main)
        IN  IF st.inputPos < Len(main) THEN
                Throw("Extraneous input data; frame is complete with input data remaining.")
            ELSE
                [kind |-> "image",
                 width |-> ReadU16le(main, hdr),
                 height |-> ReadU16le(main, hdr + 2),
                 hotspotX |-> ReadS16le(main, hdr + 4),
                 hotspotY |-> ReadS16le(main, hdr + 6),
                 frames |-> << [width |-> Undefined, height |-> Undefined,
                                pixels |-> st.out] >>]

readByVersion(main, stpVersion) ==
    IF stpVersion # 1 /\ stpVersion # 2 THEN Throw("STP version must be either 1 or 2.")
    ELSE IF Len(main) < StpHeaderSize(stpVersion) THEN Throw("RangeError")
    ELSE
        LET hdr == StpHeaderSize(stpVersion) - 8
            st == StpReadLoop(StpReadStart(main, stpVersion), main)
        IN  IF st.inputPos < Len(main) THEN
                Throw("Extraneous input data; frame is complete with input data remaining.")
            ELSE IF Len(st.out) < st.outLen THEN
                Throw("Ran out of input data before full frame size was constructed.")
            ELSE
                [kind |-> "image",
                 width |-> ReadU16le(main, hdr),
                 height |-> ReadU16le(main, hdr + 2),
                 hotspotX |-> ReadS16le(main, hdr + 4),
                 hotspotY |-> ReadS16le(main, hdr + 6),
                 frames |-> << [width |-> Undefined, height |-> Undefined,
                                pixels |-> st.out] >>]

\* The body of the encode loop of writeByVersion for the pixel at pixelIndex.
StpWriteStep(st, pixels) ==
    LET px == pixels[st.pixelIndex + 1]
        transparentIndex == StpWriterTransparentIndex
    IN
    IF px = st.runColor THEN
        LET runLength == st.runLength + 1 IN
        IF st.directSeq THEN
            [st EXCEPT !.runSeq = TRUE,
                       !.buf = @ \o <<BitAnd(runLength - 2, MAX_DIRECT_SEQUENCE_LEN)>>
                                 \o Slice(pixels, st.runStartIndex,
                                          st.runStartIndex + runLength - 2),
                       !.directSeq = FALSE,
                       !.runLength = 2,
                       !.runStartIndex = st.pixelIndex - 1,
                       !.pixelIndex = @ + 1]
        ELSE IF st.runColor = transparentIndex /\ runLength = MAX_RUNLENGTH_TRANSPARENCY THEN
            [st EXCEPT !.runSeq = TRUE,
                       !.buf = Append(@, 255),
                       !.runLength = 0,
                       !.runStartIndex = st.pixelIndex + 1,
                       !.runColor = Undefined,
                       !.pixelIndex = @ + 1]
        ELSE IF runLength = MAX_RUNLENGTH_OPAQUE THEN
            [st EXCEPT !.buf = @ \o <<127, ToByte(st.runColor)>>,
                       !.runSeq = FALSE,
                       !.runLength = 0,
                       !.runStartIndex = st.pixelIndex + 1,
                       !.runColor = Undefined,
                       !.pixelIndex = @ + 1]
        ELSE
            [st EXCEPT !.runSeq = TRUE,
                       !.runLength = runLength,
                       !.pixelIndex = @ + 1]
    ELSE IF st.directSeq THEN
        LET runLength == st.runLength + 1 IN
        IF runLength = MAX_DIRECT_SEQUENCE_LEN THEN
            [st EXCEPT !.buf = @ \o <<MAX_DIRECT_SEQUENCE_LEN>>
                                 \o Slice(pixels, st.runStartIndex,
                                          st.runStartIndex + runLength),
                       !.directSeq = FALSE,
                       !.runLength = 0,
                       !.runStartIndex = st.pixelIndex + 1,
                       !.runColor = px,
                       !.pixelIndex = @ + 1]
        ELSE
            [st EXCEPT !.runLength = runLength,
                       !.runColor = px,
                       !.pixelIndex = @ + 1]
    ELSE IF st.runSeq THEN
        LET isTransparent == (st.runColor = transparentIndex)
            ctrlBits == IF isTransparent THEN 128 ELSE 64
            countMask == IF isTransparent THEN 127 ELSE 63
            ctrlByte == BitOr(ctrlBits, BitAnd(st.runLength, countMask))
        IN  [st EXCEPT !.buf = @ \o <<ctrlByte, ToByte(st.runColor)>>,
                       !.runSeq = FALSE,
                       !.runLength = 1,
                       !.runStartIndex = st.pixelIndex,
                       !.runColor = px,
                       !.pixelIndex = @ + 1]
    ELSE
        [st EXCEPT !.runLength = @ + 1,
                   !.directSeq = (st.runLength + 1 > 1),
                   !.runColor = px,
                   !.pixelIndex = @ + 1]

\* Up to n iterations of the encode loop, split in halves to keep the
\* evaluation shallow.
RECURSIVE StpWriteIterate(_, _, _)
StpWriteIterate(st, pixels, n) ==
    IF n = 0 \/ st.pixelIndex >= Len(pixels) THEN st
    ELSE IF n = 1 THEN StpWriteStep(st, pixels)
    ELSE StpWriteIterate(StpWriteIterate(st, pixels, n \div 2), pixels, n - n \div 2)

\* The encode loop of writeByVersion, run until its condition fails.
RECURSIVE StpWriteLoop(_, _)
StpWriteLoop(st, pixels) ==
    IF st.pixelIndex < Len(pixels)
    THEN StpWriteLoop(StpWriteIterate(st, pixels, Len(pixels)), pixels)
    ELSE st

\* writeByVersion without the write of the unfinished sequence.
StpWriteTailDropped(st, pixels) == st.buf

\* The unfinished sequence written after the loop of writeByVersion.
StpWriteTail(st, pixels) ==
    IF st.runLength > 0 THEN
        IF st.runSeq THEN
            LET isTransparent == (st.runColor = StpWriterTransparentIndex)
                ctrlBits == IF isTransparent THEN 128 ELSE 64
                countMask == IF isTransparent THEN 127 ELSE 63
            IN  st.buf \o <<BitOr(ctrlBits, BitAnd(st.runLength, countMask)),
                            ToByte(st.runColor)>>
        ELSE
            st.buf \o <<BitAnd(st.runLength, MAX_DIRECT_SEQUENCE_LEN)>>
                   \o Slice(pixels, st.runStartIndex, st.runStartIndex + st.runLength)
    ELSE st.buf

\* The marker word of version 1 and the header record.
StpWriteHeader(img, stpVersion) ==
    LET frame == img.frames[1]
        frameWidth == IF frame.width = Undefined THEN img.width ELSE frame.width
        frameHeight == IF frame.height = Undefined THEN img.height ELSE frame.height
    IN  (IF stpVersion = 1 THEN WriteU16le(1) ELSE <<>>)
        \o WriteU16le(frameWidth) \o WriteU16le(frameHeight)
        \o WriteS16le(img.hotspotX) \o WriteS16le(img.hotspotY)

writeByVersion(img, stpVersion) ==
    IF stpVersion # 1 /\ stpVersion # 2 THEN Throw("STP version must be either 1 or 2.")
    ELSE IF Len(img.frames) # 1 THEN Throw("Can only write one frame to this format.")
    ELSE
        LET pixels == img.frames[1].pixels
            st0 == [pixelIndex |-> 0, runStartIndex |-> 0, runColor |-> Undefined,
                    runLength |-> 0, directSeq |-> FALSE, runSeq |-> FALSE,
                    buf |-> StpWriteHeader(img, stpVersion)]
        IN  [kind |-> "content",
             main |-> StpWriteTail(StpWriteLoop(st0, pixels), pixels)]

(***************************************************************************)
(* Delta image (formats/img-del.js).                                       *)
(***************************************************************************)

DEL_HEADER_SIZE_BYTES == 4
PAL_TRANSPARENCY_INDEX == 255
DEL_MAX_RUNLENGTH_TRANSPARENCY == 255
MAX_RUNLENGTH_6BIT == 63
NEGATIVE_DELTA_LIMIT == -8
POSITIVE_DELTA_LIMIT == 7

deltaTable == <<0, 1, 2, 3, 4, 5, 6, 7, -8, -7, -6, -5, -4, -3, -2, -1>>

\* databyte += d, where databyte is NaN once a byte was read past the end.
DelAdd(databyte, d) == IF databyte = Undefined THEN Undefined ELSE databyte + d

\* n times out[outputPos++] = v: stores past the end of `out` are dropped.
DelEmit(st, v, n) ==
    LET room == st.outLen - Len(st.out)
        k == IF n < room THEN n ELSE room
    IN  [st EXCEPT !.out = IF k > 0 THEN @ \o Repeat(ToByte(v), k) ELSE @,
                   !.outputPos = @ + n]

\* The inner loop of a delta sequence of read, from sequenceCount on.
RECURSIVE DelReadChain(_, _, _, _, _)
DelReadChain(st, main, databyte, sequenceCount, length) ==
    IF sequenceCount >= length THEN st
    ELSE
        LET byte == At(main, st.inputPos)
            hi == IF byte = Undefined THEN 0 ELSE Shr(byte, 4)
            lo == IF byte = Undefined THEN 0 ELSE BitAnd(byte, 15)
            d1 == DelAdd(databyte, deltaTable[hi + 1])
            st1 == DelEmit(st, d1, 1)
        IN  IF sequenceCount + 1 < length THEN
                LET d2 == DelAdd(d1, deltaTable[lo + 1])
                    st2 == DelEmit(st1, d2, 1)
                IN  DelReadChain([st2 EXCEPT !.inputPos = @ + 1], main, d2,
                                 sequenceCount + 2, length)
            ELSE
                DelReadChain([st1 EXCEPT !.inputPos = @ + 1], main, d1,
                             sequenceCount + 1, length)

\* One iteration of the command loop of read.
DelReadStep(st, main) ==
    LET cmdbyte == At(main, st.inputPos)
        next == At(main, st.inputPos + 1)
        top == Shr(cmdbyte, 2)
    IN
    IF BitAnd(cmdbyte, 1) # 0 THEN
        IF BitAnd(cmdbyte, 2) # 0 THEN
            DelEmit([st EXCEPT !.inputPos = @ + 2], next, 1)
        ELSE
            DelEmit([st EXCEPT !.inputPos = @ + 2], next, top)
    ELSE IF BitAnd(cmdbyte, 2) # 0 THEN
        IF top = 0 THEN
            DelEmit([st EXCEPT !.inputPos = @ + 2], PAL_TRANSPARENCY_INDEX,
                    IF next = Undefined THEN 0 ELSE next)
        ELSE
            DelEmit([st EXCEPT !.inputPos = @ + 1], PAL_TRANSPARENCY_INDEX, top)
    ELSE IF top > 0 THEN
        DelReadChain(DelEmit([st EXCEPT !.inputPos = @ + 2], next, 1),
                     main, next, 1, top)
    ELSE
        [st EXCEPT !.inputPos = @ + 1]

\* Up to n iterations of the command loop, split in halves to keep the
\* evaluation shallow.
RECURSIVE DelReadIterate(_, _, _)
DelReadIterate(st, main, n) ==
    IF n = 0 \/ st.inputPos >= Len(main) THEN st
    ELSE IF n = 1 THEN DelReadStep(st, main)
    ELSE DelReadIterate(DelReadIterate(st, main, n \div 2), main, n - n \div 2)

\* The command loop of read, run until its condition fails.
RECURSIVE DelReadLoop(_, _)
DelReadLoop(st, main) ==
    IF st.inputPos < Len(main)
    THEN DelReadLoop(DelReadIterate(st, main, Len(main)), main)
    ELSE st

\* The decoder state before the first command.
DelReadStart(main) ==
    [inputPos |-> DEL_HEADER_SIZE_BYTES,
     outputPos |-> 0,
     outLen |-> ReadU16le(main, 0) * ReadU16le(main, 2),
     out |-> <<>>]

\* Image_Del.read
Image_Del_read(main) ==
    IF Len(main) < DEL_HEADER_SIZE_BYTES THEN Throw("RangeError")
    ELSE
        LET st == DelReadLoop(DelReadStart(main), main) IN
        IF st.inputPos < Len(main) THEN
            Throw("Extraneous input data; frame is complete with input data remaining.")
        ELSE IF st.outputPos < st.outLen THEN
            Throw("Ran out of input data before full frame size was constructed.")
        ELSE
            [kind |-> "image",
             width |-> ReadU16le(main, 0),
             height |-> ReadU16le(main, 2),
             hotspotX |-> Undefined, hotspotY |-> Undefined,
             frames |-> << [width |-> Undefined, height |-> Undefined,
                            pixels |-> st.out] >>]

\* The nibble pairs of writeDeltaSeq from index i (0-based) on.
RECURSIVE DelPackNibbles(_, _)
DelPackNibbles(deltaRunVals, i) ==
    IF i < Len(deltaRunVals) - 1
    THEN <<ToByte(BitOr(Shl(deltaRunVals[i + 1], 4), deltaRunVals[i + 2]))>>
             \o DelPackNibbles(deltaRunVals, i + 2)
    ELSE <<>>

\* The bytes writeDeltaSeq puts in the buffer.
writeDeltaSeq(deltaRunVals) ==
    <<ToByte(Shl(Len(deltaRunVals), 2)), ToByte(deltaRunVals[1])>>
        \o DelPackNibbles(deltaRunVals, 1)
        \o (IF Len(deltaRunVals) % 2 = 0
            THEN <<ToByte(Shl(deltaRunVals[Len(deltaRunVals)], 4))>>
            ELSE <<>>)

\* writeSingleColorRun: the bytes it puts in the buffer, or the error it throws.
writeSingleColorRun(color, length) ==
    IF color = PAL_TRANSPARENCY_INDEX THEN
        IF length <= MAX_RUNLENGTH_6BIT THEN
            [bytes |-> <<ToByte(BitOr(2, Shl(length, 2)))>>, error |-> ""]
        ELSE IF length <= DEL_MAX_RUNLENGTH_TRANSPARENCY THEN
            [bytes |-> <<2, ToByte(length)>>, error |-> ""]
        ELSE [bytes |-> <<>>, error |-> "Transparency run exceeds maximum."]
    ELSE
        IF length <= MAX_RUNLENGTH_6BIT THEN
            [bytes |-> <<ToByte(BitOr(1, Shl(length, 2))), ToByte(color)>>, error |-> ""]
        ELSE [bytes |-> <<>>, error |-> "Single-color run exceeds maximum."]

\* The body of the encode loop of write for the pixel at pixelIndex.
\* lastPixelInSequence is "undefined", "true" or "false".
DelWriteStep(st, pixels) ==
    LET px == pixels[st.pixelIndex + 1]
        lastColor == st.lastColor
        vals == st.deltaRunVals
        adv == [st EXCEPT !.pixelIndex = @ + 1]
    IN
    IF px = lastColor THEN
        IF st.runStartIndex # Undefined THEN
            LET runLength == st.pixelIndex - st.runStartIndex + 1 IN
            IF \/ (lastColor = PAL_TRANSPARENCY_INDEX
                      /\ runLength = DEL_MAX_RUNLENGTH_TRANSPARENCY)
               \/ (lastColor # PAL_TRANSPARENCY_INDEX /\ runLength = MAX_RUNLENGTH_6BIT)
            THEN
                LET run == writeSingleColorRun(lastColor, runLength) IN
                [adv EXCEPT !.buf = @ \o run.bytes,
                            !.error = run.error,
                            !.runStartIndex = Undefined,
                            !.lastColor = Undefined]
            ELSE adv
        ELSE IF Len(vals) > 0 THEN
            IF Len(vals) + 1 = MAX_RUNLENGTH_6BIT THEN
                [adv EXCEPT !.buf = @ \o writeDeltaSeq(Append(vals, 0)),
                            !.deltaRunVals = <<>>,
                            !.lastPixelInSequence = "true"]
            ELSE
                [adv EXCEPT !.deltaRunVals = Append(vals, 0),
                            !.lastPixelInSequence = "true"]
        ELSE IF st.pixelIndex < Len(pixels) - 1 /\ pixels[st.pixelIndex + 2] = lastColor THEN
            [adv EXCEPT !.lastPixelInSequence = "true",
                        !.runStartIndex = st.pixelIndex - 1]
        ELSE
            [adv EXCEPT !.deltaRunVals = <<lastColor, 0>>,
                        !.lastPixelInSequence = "true"]
    ELSE
        IF st.runStartIndex # Undefined THEN
            LET run == writeSingleColorRun(lastColor, st.pixelIndex - st.runStartIndex) IN
            [adv EXCEPT !.lastPixelInSequence = "false",
                        !.buf = @ \o run.bytes,
                        !.error = run.error,
                        !.runStartIndex = Undefined,
                        !.lastColor = px]
        ELSE IF /\ lastColor # Undefined
                /\ px - lastColor >= NEGATIVE_DELTA_LIMIT
                /\ px - lastColor <= POSITIVE_DELTA_LIMIT
        THEN
            LET deltaFromLast == px - lastColor
                tableIndexOfDelta ==
                    CHOOSE i \in 0..15 : deltaTable[i + 1] = deltaFromLast
                pushed == (IF Len(vals) = 0 THEN <<lastColor>> ELSE vals)
                              \o <<tableIndexOfDelta>>
            IN  IF Len(pushed) >= MAX_RUNLENGTH_6BIT THEN
                    [adv EXCEPT !.lastPixelInSequence = "true",
                                !.buf = @ \o writeDeltaSeq(pushed),
                                !.deltaRunVals = <<>>,
                                !.lastColor = px]
                ELSE
                    [adv EXCEPT !.lastPixelInSequence = "true",
                                !.deltaRunVals = pushed,
                                !.lastColor = px]
        ELSE
            [adv EXCEPT !.buf = @ \o (IF Len(vals) > 0 THEN writeDeltaSeq(vals) ELSE <<>>)
                                  \o (IF st.lastPixelInSequence = "false"
                                      THEN <<3, ToByte(lastColor)>> ELSE <<>>),
                        !.deltaRunVals = <<>>,
                        !.lastPixelInSequence = "false",
                        !.lastColor = px]

\* Up to n iterations of the encode loop, split in halves to keep the
\* evaluation shallow; a thrown error ends the loop.
RECURSIVE DelWriteIterate(_, _, _)
DelWriteIterate(st, pixels, n) ==
    IF n = 0 \/ st.pixelIndex >= Len(pixels) \/ st.error # "" THEN st
    ELSE IF n = 1 THEN DelWriteStep(st, pixels)
    ELSE DelWriteIterate(DelWriteIterate(st, pixels, n \div 2), pixels, n - n \div 2)

\* The encode loop of write, run until its condition fails.
RECURSIVE DelWriteLoop(_, _)
DelWriteLoop(st, pixels) ==
    IF st.pixelIndex < Len(pixels) /\ st.error = ""
    THEN DelWriteLoop(DelWriteIterate(st, pixels, Len(pixels)), pixels)
    ELSE st

\* Image_Del.write
Image_Del_write(img) ==
    IF Len(img.frames) # 1 THEN Throw("Can only write one frame to this format.")
    ELSE
        LET frame == img.frames[1]
            frameWidth == IF frame.width = Undefined THEN img.width ELSE frame.width
            frameHeight == IF frame.height = Undefined THEN img.height ELSE frame.height
            st0 == [pixelIndex |-> 0, runStartIndex |-> Undefined,
                    lastColor |-> Undefined, deltaRunVals |-> <<>>,
                    lastPixelInSequence |-> "undefined", error |-> "",
                    buf |-> WriteU16le(frameWidth) \o WriteU16le(frameHeight)]
            st == DelWriteLoop(st0, frame.pixels)
        IN  IF st.error # "" THEN Throw(st.error)
            ELSE [kind |-> "content",
                  main |-> st.buf \o (IF Len(st.deltaRunVals) > 0
                                      THEN writeDeltaSeq(st.deltaRunVals) ELSE <<>>)]

(***************************************************************************)
(* Bitplane codec (util/image-planar.js).                                  *)
(***************************************************************************)

\* a % b for a >= 0: NaN when b is 0, and the sign of b does not matter.
JsMod(a, b) == IF b = 0 THEN Undefined ELSE IF b < 0 THEN a % (0 - b) ELSE a % b

\* Math.ceil(planeWidth / 8)
PlanarWidthBytes(planeWidth) == (planeWidth + 7) \div 8

\* fromPlanar reading bit 0 first whatever the byte order.
PlanarSrcBitLSB(b, byteOrderMSB) == b % 8

\* srcBit of fromPlanar: the bit of the source byte that holds pixel b.
PlanarSrcBit(b, byteOrderMSB) == IF byteOrderMSB THEN 7 - (b % 8) ELSE b % 8

\* toPlanar writing bit 0 first whatever the byte order.
PlanarPixelBitLSB(i, byteOrderMSB) == i % 8

\* pixelBit of toPlanar: the bit of the target byte that holds pixel i.
PlanarPixelBit(i, byteOrderMSB) == IF byteOrderMSB THEN 7 - (i % 8) ELSE i % 8

\* array[index] = value where the code has |=.
StoreInto(array, index, value) ==
    IF index >= 0 /\ index < Len(array)
    THEN [array EXCEPT ![index + 1] = ToByte(value)]
    ELSE array

\* array[index] |= value on a Uint8Array: no effect outside the array.
OrInto(array, index, value) ==
    IF index >= 0 /\ index < Len(array)
    THEN [array EXCEPT ![index + 1] = ToByte(BitOr(@, value))]
    ELSE array

\* One iteration of the inner loop of fromPlanar: pixel b of the plane line
\* at byte i.
FromPlanarBit(out, outpos, i, b, args) ==
    LET plane == (i \div PlanarWidthBytes(args.planeWidth)) % args.planeCount
        srcByteOffset == b \div 8
        srcBit == PlanarSrcBit(b, args.byteOrderMSB)
        data == At(args.content, i + srcByteOffset)
        bit == IF data = Undefined THEN 0 ELSE BitAnd(Shr(data, srcBit), 1)
        planeValue == At(args.planeValues, plane)
        value == IF bit = 0 \/ planeValue = Undefined THEN 0 ELSE planeValue
    IN  OrInto(out, outpos + b, value)

\* The inner loop of fromPlanar for b in lo..hi-1, split in halves to keep
\* the evaluation shallow; an empty output takes no stores.
RECURSIVE FromPlanarLine(_, _, _, _, _, _)
FromPlanarLine(out, outpos, i, lo, hi, args) ==
    IF lo >= hi \/ Len(out) = 0 THEN out
    ELSE IF hi = lo + 1 THEN FromPlanarBit(out, outpos, i, lo, args)
    ELSE LET mid == (lo + hi) \div 2
         IN  FromPlanarLine(FromPlanarLine(out, outpos, i, lo, mid, args),
                            outpos, i, mid, hi, args)

\* One iteration of the outer loop of fromPlanar.
FromPlanarStep(st, args) ==
    LET widthBytes == PlanarWidthBytes(args.planeWidth)
        plane == (st.i \div widthBytes) % args.planeCount
    IN  [out |-> FromPlanarLine(st.out, st.outpos, st.i, 0, args.planeWidth, args),
         outpos |-> IF plane = args.planeCount - 1
                    THEN st.outpos + args.planeWidth ELSE st.outpos,
         i |-> st.i + widthBytes]

\* Up to n iterations of the outer loop of fromPlanar, split in halves.
RECURSIVE FromPlanarIterate(_, _, _)
FromPlanarIterate(st, args, n) ==
    IF n = 0 \/ st.i >= Len(args.content) THEN st
    ELSE IF n = 1 THEN FromPlanarStep(st, args)
    ELSE FromPlanarIterate(FromPlanarIterate(st, args, n \div 2), args, n - n \div 2)

\* The outer loop of fromPlanar, run until its condition fails.
RECURSIVE FromPlanarLoop(_, _)
FromPlanarLoop(st, args) ==
    IF st.i < Len(args.content)
    THEN FromPlanarLoop(FromPlanarIterate(st, args, Len(args.content)), args)
    ELSE st

fromPlanar(args) ==
    IF Len(args.content) = 0 THEN [kind |-> "bytes", bytes |-> <<>>]
    ELSE IF PlanarWidthBytes(args.planeWidth) <= 0
    THEN Throw("fromPlanar() planeWidth too small!")
    ELSE [kind |-> "bytes",
          bytes |-> FromPlanarLoop(
                        [out |-> Repeat(0, (Len(args.content) * 8) \div args.planeCount),
                         outpos |-> 0, i |-> 0], args).out]

\* One iteration of the inner loop of toPlanar: plane b of the pixel at i.
ToPlanarBit(out, outpos, i, b, args) ==
    LET widthBytes == PlanarWidthBytes(args.planeWidth)
        pixelByte == JsMod(i \div 8, widthBytes)
        pixelBit == PlanarPixelBit(i, args.byteOrderMSB)
        planeValue == At(args.planeValues, b)
        val == IF planeValue = Undefined \/ BitAnd(args.content[i + 1], planeValue) = 0
               THEN 0 ELSE Shl(1, pixelBit)
        index == IF pixelByte = Undefined THEN Undefined
                 ELSE outpos + pixelByte + b * widthBytes
    IN  OrInto(out, index, val)

\* The inner loop of toPlanar for b in lo..hi-1, split in halves.
RECURSIVE ToPlanarPixel(_, _, _, _, _, _)
ToPlanarPixel(out, outpos, i, lo, hi, args) ==
    IF lo >= hi \/ Len(out) = 0 THEN out
    ELSE IF hi = lo + 1 THEN ToPlanarBit(out, outpos, i, lo, args)
    ELSE LET mid == (lo + hi) \div 2
         IN  ToPlanarPixel(ToPlanarPixel(out, outpos, i, lo, mid, args),
                           outpos, i, mid, hi, args)

\* One iteration of the outer loop of toPlanar.
ToPlanarStep(st, args) ==
    [out |-> ToPlanarPixel(st.out, st.outpos, st.i, 0, args.planeCount, args),
     outpos |-> IF JsMod(st.i, args.planeWidth) = args.planeWidth - 1
                THEN st.outpos + args.planeCount * PlanarWidthBytes(args.planeWidth)
                ELSE st.outpos,
     i |-> st.i + 1]

\* Up to n iterations of the outer loop of toPlanar, split in halves.
RECURSIVE ToPlanarIterate(_, _, _)
ToPlanarIterate(st, args, n) ==
    IF n = 0 \/ st.i >= Len(args.content) THEN st
    ELSE IF n = 1 THEN ToPlanarStep(st, args)
    ELSE ToPlanarIterate(ToPlanarIterate(st, args, n \div 2), args, n - n \div 2)

\* The outer loop of toPlanar, run until its condition fails.
RECURSIVE ToPlanarLoop(_, _)
ToPlanarLoop(st, args) ==
    IF st.i < Len(args.content)
    THEN ToPlanarLoop(ToPlanarIterate(st, args, Len(args.content)), args)
    ELSE st

toPlanar(args) ==
    IF Len(args.content) = 0 THEN [kind |-> "bytes", bytes |-> <<>>]
    ELSE [kind |-> "bytes",
          bytes |-> ToPlanarLoop(
                        [out |-> Repeat(0, (Len(args.content) * args.planeCount) \div 8),
                         outpos |-> 0, i |-> 0], args).out]

(***************************************************************************)
(* Frames and the tile compositor (frame-compose.js,                       *)
(* frame-from_tileset.js).  A frame's pixels are a Uint8Array: a view of   *)
(* `length` bytes at `byteOffset` into an ArrayBuffer.                     *)
(***************************************************************************)

\* A Uint8Array over a whole, fresh buffer.
NewArray(bytes) == [buffer |-> bytes, byteOffset |-> 0, length |-> Len(bytes)]

\* The elements of a Uint8Array.
Elements(array) ==
    SubSeq(array.buffer, array.byteOffset + 1, array.byteOffset + array.length)

\* a || b for numbers.
OrElse(a, b) == IF a = Undefined \/ a = 0 THEN b ELSE a

\* a + b, a * b and Math.max(a, b), NaN when an operand is undefined.
JsAdd(a, b) == IF a = Undefined \/ b = Undefined THEN Undefined ELSE a + b
JsMul(a, b) == IF a = Undefined \/ b = Undefined THEN Undefined ELSE a * b
JsMax(a, b) == IF a = Undefined \/ b = Undefined THEN Undefined ELSE Max(a, b)

\* new Uint8Array(n): empty when n is NaN.
JsLength(n) == IF n = Undefined THEN 0 ELSE n

\* A palette is the sequence of its entries' alpha values; a frame or image
\* may have none.
NoPalette == [present |-> FALSE, alpha |-> <<>>]
Palette(alpha) == [present |-> TRUE, alpha |-> alpha]

\* new Frame(params): a zero width or height is stored as undefined.
Frame(width, height, pixels, palette) ==
    [kind |-> "frame", width |-> OrElse(width, Undefined),
     height |-> OrElse(height, Undefined), pixels |-> pixels, palette |-> palette]

\* new Uint8Array(buffer, byteOffset, length): the bytes, or a RangeError
\* when the range does not lie inside the buffer.
ViewOf(buffer, byteOffset, length) ==
    IF byteOffset = Undefined \/ length = Undefined
    THEN [error |-> TRUE, bytes |-> <<>>]
    ELSE IF byteOffset + length > Len(buffer)
    THEN [error |-> TRUE, bytes |-> <<>>]
    ELSE [error |-> FALSE, bytes |-> SubSeq(buffer, byteOffset + 1, byteOffset + length)]

\* pixels.set(src, offDst) on a fresh array, or a RangeError when src does
\* not fit.
SetAt(pixels, src, offDst) ==
    IF offDst = Undefined \/ offDst + Len(src) > Len(pixels)
    THEN [error |-> TRUE, pixels |-> pixels]
    ELSE [error |-> FALSE,
          pixels |-> [i \in 1..Len(pixels) |->
                         IF i > offDst /\ i <= offDst + Len(src)
                         THEN src[i - offDst] ELSE pixels[i]]]

\* The first loop of frameCompose: the bounding box of pieces k.. on.
RECURSIVE ComposeBounds(_, _, _, _)
ComposeBounds(composition, options, k, box) ==
    IF k > Len(composition) THEN box
    ELSE
        LET c == composition[k]
            cx == JsAdd(c.offsetX, OrElse(c.frame.width, options.defaultWidth))
            cy == JsAdd(c.offsetY, OrElse(c.frame.height, options.defaultHeight))
        IN  ComposeBounds(composition, options, k + 1,
                          [width |-> JsMax(box.width, cx),
                           height |-> JsMax(box.height, cy)])

\* The palette scan of frameCompose from entry i on: the first entry with
\* alpha 0.
RECURSIVE ComposeBackground(_, _)
ComposeBackground(palette, i) ==
    IF i >= Len(palette.alpha) THEN [error |-> FALSE, bg |-> 0]
    ELSE IF palette.alpha[i + 1] = Undefined THEN [error |-> TRUE, bg |-> 0]
    ELSE IF palette.alpha[i + 1] = 0 THEN [error |-> FALSE, bg |-> i]
    ELSE ComposeBackground(palette, i + 1)

\* The background colour frameCompose fills the canvas with.
ComposeFill(palette, options) ==
    IF ~palette.present THEN [error |-> FALSE, bg |-> 0]
    ELSE ComposeBackground(palette, 0)

\* The row loop of frameCompose for piece c, from row y on.
RECURSIVE ComposeRows(_, _, _, _, _)
ComposeRows(st, c, y, width, options) ==
    LET frameHeight == OrElse(c.frame.height, options.defaultHeight)
        frameWidth == OrElse(c.frame.width, options.defaultWidth)
    IN  IF st.error \/ frameHeight = Undefined \/ y >= frameHeight THEN st
        ELSE
            LET offSrc == JsMul(y, frameWidth)
                offDst == JsAdd(JsMul(c.offsetY + y, width), c.offsetX)
                bufSrc == ViewOf(c.frame.pixels.buffer,
                                 JsAdd(c.frame.pixels.byteOffset, offSrc), frameWidth)
            IN  IF bufSrc.error THEN [st EXCEPT !.error = TRUE]
                ELSE ComposeRows(SetAt(st.pixels, bufSrc.bytes, offDst),
                                 c, y + 1, width, options)

\* The second loop of frameCompose, from piece k on.
RECURSIVE ComposePieces(_, _, _, _, _)
ComposePieces(st, composition, k, width, options) ==
    IF st.error \/ k > Len(composition) THEN st
    ELSE ComposePieces(ComposeRows(st, composition[k], 0, width, options),
                       composition, k + 1, width, options)

frameCompose(composition, options) ==
    IF composition = <<>> THEN Throw("TypeError")
    ELSE
        LET box == ComposeBounds(composition, options, 1, [width |-> 0, height |-> 0])
            palette == composition[1].frame.palette
            fill == ComposeFill(palette, options)
        IN  IF fill.error THEN Throw("Palette entry is invalid.")
            ELSE
                LET blank == Repeat(fill.bg, JsLength(JsMul(box.width, box.height)))
                    st == ComposePieces([error |-> FALSE, pixels |-> blank],
                                        composition, 1, box.width, options)
                IN  IF st.error THEN Throw("RangeError")
                    ELSE Frame(box.width, box.height, NewArray(st.pixels), palette)

\* The loop of frameFromTileset from tile f on (f counts from 0).
RECURSIVE TilePlacement(_, _, _, _)
TilePlacement(img, width, f, st) ==
    IF f >= Len(img.frames) THEN st.frameList
    ELSE
        LET wrap == f > 0 /\ JsMod(f, width) = 0
            x == IF wrap THEN 0 ELSE st.x
            y == IF wrap THEN JsAdd(st.y, st.yMax) ELSE st.y
            yMax == IF wrap THEN 0 ELSE st.yMax
            frame == img.frames[f + 1]
            frameWidth == IF frame.width = Undefined THEN img.width ELSE frame.width
            frameHeight == IF frame.height = Undefined THEN img.height ELSE frame.height
        IN  TilePlacement(img, width, f + 1,
                [frameList |-> Append(st.frameList,
                                      [frame |-> frame, offsetX |-> x, offsetY |-> y]),
                 x |-> JsAdd(x, frameWidth), y |-> y,
                 yMax |-> JsMax(yMax, frameHeight)])

frameFromTileset(img, width, bg) ==
    frameCompose(TilePlacement(img, width, 0,
                               [frameList |-> <<>>, x |-> 0, y |-> 0, yMax |-> 0]),
                 [defaultWidth |-> img.width, defaultHeight |-> img.height,
                  bg |-> bg, palette |-> img.palette])

\* The error tilesetFromFrame throws for row y of tile f.
TileOverrun(f, y) ==
    [kind |-> "error",
     error |-> "Pixel data for tile runs past the end of the source image.",
     tile |-> f, row |-> y]

\* The bounds test of tilesetFromFrame.
TileRowOverruns(pixels, offSrc, tileWidth) ==
    pixels.byteOffset + offSrc + tileWidth > pixels.length

\* The row loop of tilesetFromFrame for tile f at (tx, ty), from row y on.
RECURSIVE TileRows(_, _, _, _, _, _, _)
TileRows(st, frame, srcFrameWidth, f, pos, dim, y) ==
    IF st.result.kind = "error" \/ y >= dim.height THEN st
    ELSE
        LET offSrc == (pos.ty + y) * srcFrameWidth + pos.tx
            offDst == y * dim.width
            bufSrc == ViewOf(frame.pixels.buffer, frame.pixels.byteOffset + offSrc,
                             dim.width)
        IN  IF TileRowOverruns(frame.pixels, offSrc, dim.width)
            THEN [st EXCEPT !.result = TileOverrun(f, y)]
            ELSE IF bufSrc.error THEN [st EXCEPT !.result = Throw("RangeError")]
            ELSE TileRows([st EXCEPT !.pixels = SetAt(@, bufSrc.bytes, offDst).pixels],
                          frame, srcFrameWidth, f, pos, dim, y + 1)

\* Where tilesetFromFrame takes tile f from, given the state after tile f-1.
TileOrigin(st, tileWidth, srcFrameWidth) ==
    IF st.tx + tileWidth > srcFrameWidth
    THEN [tx |-> 0, ty |-> st.ty + st.yMax, yMax |-> 0]
    ELSE [tx |-> st.tx, ty |-> st.ty, yMax |-> st.yMax]

\* The tile loop of tilesetFromFrame from tile f on (f counts from 0).
RECURSIVE TileLoop(_, _, _, _, _, _)
TileLoop(st, frame, srcFrameWidth, tileDims, bg, f) ==
    IF st.result.kind = "error" \/ f >= Len(tileDims) THEN st
    ELSE
        LET dim == tileDims[f + 1]
            pos == TileOrigin(st, dim.width, srcFrameWidth)
            blank == Repeat(OrElse(bg, 0), dim.width * dim.height)
            rows == TileRows([result |-> st.result, pixels |-> blank],
                             frame, srcFrameWidth, f, pos, dim, 0)
        IN  IF rows.result.kind = "error" THEN [st EXCEPT !.result = rows.result]
            ELSE TileLoop(
                     [result |-> st.result,
                      tiles |-> Append(st.tiles,
                                       Frame(dim.width, dim.height,
                                             NewArray(rows.pixels), NoPalette)),
                      tx |-> pos.tx + dim.width, ty |-> pos.ty,
                      yMax |-> Max(pos.yMax, dim.height)],
                     frame, srcFrameWidth, tileDims, bg, f + 1)

\* The ArrayBuffer behind the pixels of a tile: tilesetFromFrame allocates
\* a new one for every tile (new Uint8Array(tileWidth * tileHeight)); the
\* alternative is a view of the buffer of the frame.
TilePixelsBufferOfFrame == "frame"
TilePixelsBuffer == "new"

\* array[index] = value by way of a Uint8Array.
StoreAt(array, index, value) ==
    IF index >= 0 /\ index < array.length
    THEN [array EXCEPT !.buffer[array.byteOffset + index + 1] = value]
    ELSE array

\* The pixels of the frame after the stores that fill one tile: they reach
\* the frame only when the tile shares its buffer.
RECURSIVE FrameAfterStores(_, _, _)
FrameAfterStores(pixels, tilePixels, i) ==
    IF TilePixelsBuffer = "new" \/ i >= Len(tilePixels) THEN pixels
    ELSE FrameAfterStores(StoreAt(pixels, i, tilePixels[i + 1]), tilePixels, i + 1)

\* The pixels of the frame once tilesetFromFrame has filled tiles f.. on.
RECURSIVE FrameAfterTiles(_, _, _)
FrameAfterTiles(pixels, tiles, f) ==
    IF f > Len(tiles) THEN pixels
    ELSE FrameAfterTiles(FrameAfterStores(pixels, Elements(tiles[f].pixels), 0),
                         tiles, f + 1)

\* tilesetFromFrame({ frame, frameWidth, tileDims, bg }) for a Frame instance.
tilesetFromFrame(args) ==
    LET srcFrameWidth == OrElse(args.frame.width, args.frameWidth)
        st == TileLoop([result |-> [kind |-> "tiles"], tiles |-> <<>>,
                        tx |-> 0, ty |-> 0, yMax |-> 0],
                       args.frame, srcFrameWidth, args.tileDims, args.bg, 0)
    IN  IF st.result.kind = "error" THEN st.result
        ELSE [kind |-> "tiles", tiles |-> st.tiles]

(***************************************************************************)
(* identify(): the result object, and RecordBuffer reads.                  *)
(***************************************************************************)

\* { valid, reason }: valid is "true", "false" or "undefined".
Identified(valid, reason) == [kind |-> "identify", valid |-> valid, reason |-> reason]

\* buffer.distFromEnd() with the read position at pos.
DistFromEndOffByOne(bytes, pos) == Len(bytes) - pos + 1
DistFromEnd(bytes, pos) == Len(bytes) - pos

\* buffer.read(RecordType.int.u8) at pos: the byte, or Undefined where the
\* read lies outside the buffer and throws a RangeError.
ReadU8(bytes, pos) == At(bytes, pos)

\* A RecordBuffer read of n bytes at pos is inside the buffer; outside it
\* the DataView throws a RangeError.
CanRead(bytes, pos, n) == pos >= 0 /\ pos + n <= Len(bytes)

\* RecordType.int.u32le at pos.
ReadU32le(s, pos) == ReadU16le(s, pos) + 65536 * ReadU16le(s, pos + 2)
WriteU32le(v) == WriteU16le(v % 65536) \o WriteU16le(v \div 65536)

(***************************************************************************)
(* Stamp identification (formats/img-stp.js).                              *)
(***************************************************************************)

\* The fewest pixels rasterDataSize bytes can hold by the estimate of
\* identifyByVersion: 64 bytes for every 63 pixels, never below zero.
StpMinPossiblePixelCount(rasterDataSize) ==
    Max((rasterDataSize \div 64) * 63 + ((rasterDataSize % 64) - 1), 0)

\* img_stp_common.identifyByVersion(content, stpVersion)
identifyByVersion(bytes, stpVersion) ==
    IF stpVersion # 1 /\ stpVersion # 2 THEN Throw("STP version must be either 1 or 2.")
    ELSE IF Len(bytes) < StpHeaderSize(stpVersion)
    THEN Identified("false", "File size is smaller than minimum possible size for 0x0 image.")
    ELSE
        LET hdr == StpHeaderSize(stpVersion) - 8
            reportedPixelCount == ReadU16le(bytes, hdr) * ReadU16le(bytes, hdr + 2)
            rasterDataSize == Len(bytes) - StpHeaderSize(stpVersion)
        IN  IF ReadS16le(bytes, hdr + 4) > 320 \/ ReadS16le(bytes, hdr + 6) > 200
            THEN Identified("false", "Hotspot position(s) contain values larger than maximum.")
            ELSE IF reportedPixelCount < StpMinPossiblePixelCount(rasterDataSize)
            THEN Identified("false", "Image header reports pixel count below the minimum size.")
            ELSE IF reportedPixelCount > rasterDataSize * 127
            THEN Identified("false", "Image header reports pixel count above the maximum size.")
            ELSE Identified("true", "Potentially valid STP image, pending decode.")

(***************************************************************************)
(* GIF identification (formats/img-gif.js).                                *)
(***************************************************************************)

HEADER_MAGIC_LEN == 6
LOGICAL_SCREEN_DESC_LEN == 7
EXTENSION_INTRODUCER == 33
IMG_DESC_INTRODUCER == 44
TRAILER == 59

\* 'GIF87a', 'GIF89a' and 'IMAGEX' as character codes.
MagicGif87a == <<71, 73, 70, 56, 55, 97>>
MagicGif89a == <<71, 73, 70, 56, 57, 97>>
MagicImagex == <<73, 77, 65, 71, 69, 88>>

\* getMagicWord() and getExtensionsAllowed() of the three GIF handlers.
getMagicWord(handler) ==
    CASE handler = "img-gif-87a" -> MagicGif87a
      [] handler = "img-gif-89a" -> MagicGif89a
      [] OTHER -> MagicImagex
getExtensionsAllowedAlways(handler) == TRUE
getExtensionsAllowed(handler) == handler = "img-gif-89a"

\* (1 << ((packedField & 0x07) + 1)) * 3
GifColorTableSize(packedField) == Shl(1, BitAnd(packedField, 7) + 1) * 3

\* The loop that skips data sub-blocks: the read position and the last
\* sub-block length once the loop has ended.
RECURSIVE GifSkipSubBlocks(_, _, _)
GifSkipSubBlocks(bytes, pos, subBlockLen) ==
    IF subBlockLen > 0 /\ DistFromEnd(bytes, pos) > 0
    THEN LET next == pos + subBlockLen
         IN  IF DistFromEnd(bytes, next) > 0
             THEN GifSkipSubBlocks(bytes, next + 1, ReadU8(bytes, next))
             ELSE [pos |-> next, subBlockLen |-> 0]
    ELSE [pos |-> pos, subBlockLen |-> subBlockLen]

\* The extension branch of the block loop, the introducer already read.
GifExtensionBlock(st, bytes, extensionsAllowed) ==
    IF ~extensionsAllowed
    THEN [st EXCEPT !.result =
              Identified("false", "File contains an extension, which is not supported.")]
    ELSE IF DistFromEnd(bytes, st.pos) <= 0
    THEN [st EXCEPT !.result =
              Identified("false", "File contains insufficient data for extension block.")]
    ELSE
        LET pos == st.pos + 1
            skipped == IF DistFromEnd(bytes, pos) > 0
                       THEN GifSkipSubBlocks(bytes, pos + 1, ReadU8(bytes, pos))
                       ELSE [pos |-> pos, subBlockLen |-> -1]
        IN  IF skipped.subBlockLen = Undefined
            THEN [st EXCEPT !.result = Throw("RangeError")]
            ELSE IF skipped.subBlockLen # 0
            THEN [st EXCEPT !.result =
                      Identified("false",
                                 "File contains an invalid Plain Text or Comment extension.")]
            ELSE [st EXCEPT !.pos = skipped.pos]

\* The image descriptor branch of the block loop, the introducer already
\* read.
GifImageBlock(st, bytes) ==
    IF DistFromEnd(bytes, st.pos) < 9
    THEN [st EXCEPT !.result =
              Identified("false",
                         "File contains insufficient data to complete image descriptor.")]
    ELSE
        LET packedField == ReadU8(bytes, st.pos + 8)
            localColorTableSize == IF BitAnd(packedField, 128) # 0
                                   THEN GifColorTableSize(packedField) ELSE 0
            pos == st.pos + 9
        IN  IF packedField = Undefined
            THEN [st EXCEPT !.result = Throw("RangeError")]
            ELSE IF DistFromEnd(bytes, pos) < localColorTableSize
            THEN [st EXCEPT !.result =
                      Identified("false", "File contains an incomplete local color table.")]
            ELSE IF DistFromEnd(bytes, pos + localColorTableSize) < 2
            THEN [st EXCEPT !.result =
                      Identified("false", "File contains an incomplete image data block.")]
            ELSE
                LET data == pos + localColorTableSize
                    lzwMinCodeSize == ReadU8(bytes, data)
                    skipped == GifSkipSubBlocks(bytes, data + 2, ReadU8(bytes, data + 1))
                IN  IF lzwMinCodeSize = Undefined \/ skipped.subBlockLen = Undefined
                    THEN [st EXCEPT !.result = Throw("RangeError")]
                    ELSE IF lzwMinCodeSize < 2 \/ lzwMinCodeSize > 12
                    THEN [st EXCEPT !.result =
                              Identified("false",
                                         "LZW minimum code size is outside valid range for GIF (2 to 12).")]
                    ELSE IF skipped.subBlockLen = 0
                    THEN [st EXCEPT !.pos = skipped.pos, !.foundImageData = TRUE]
                    ELSE [st EXCEPT !.result =
                              Identified("false",
                                         "File contains an incomplete image data subblock.")]

\* The block loop of identify from the state st on.
RECURSIVE GifBlockLoop(_, _, _)
GifBlockLoop(st, bytes, extensionsAllowed) ==
    IF st.result.kind # "none" \/ DistFromEnd(bytes, st.pos) <= 0 \/ st.foundTrailer
    THEN st
    ELSE
        LET introducer == ReadU8(bytes, st.pos)
            read == [st EXCEPT !.pos = st.pos + 1]
        IN  GifBlockLoop(
                IF introducer = Undefined
                THEN [st EXCEPT !.result = Throw("RangeError")]
                ELSE IF introducer = EXTENSION_INTRODUCER
                THEN GifExtensionBlock(read, bytes, extensionsAllowed)
                ELSE IF introducer = IMG_DESC_INTRODUCER
                THEN GifImageBlock(read, bytes)
                ELSE IF introducer = TRAILER
                THEN [read EXCEPT !.foundTrailer = TRUE]
                ELSE read,
                bytes, extensionsAllowed)

\* img_gif_base.identify(content) for the handler of the given id.
Gif_identify(bytes, handler) ==
    LET expectedMagic == getMagicWord(handler)
        extensionsAllowed == getExtensionsAllowed(handler)
    IN  IF Len(bytes) < HEADER_MAGIC_LEN + LOGICAL_SCREEN_DESC_LEN
        THEN Identified("false", "File size is smaller than minimal header information.")
        ELSE IF SubSeq(bytes, 1, HEADER_MAGIC_LEN) # expectedMagic
        THEN Identified("false", "Header magic word not found.")
        ELSE
            LET packedField == bytes[HEADER_MAGIC_LEN + 5]
                usingGlobalColor == BitAnd(packedField, 128) # 0
                globalColorTableSize == GifColorTableSize(packedField)
                start == HEADER_MAGIC_LEN + LOGICAL_SCREEN_DESC_LEN
            IN  IF usingGlobalColor /\ DistFromEnd(bytes, start) < globalColorTableSize
                THEN Identified("false",
                                "File size too small to contain claimed global color table.")
                ELSE
                    LET st == GifBlockLoop(
                                  [pos |-> IF usingGlobalColor
                                           THEN start + globalColorTableSize ELSE start,
                                   foundTrailer |-> FALSE, foundImageData |-> FALSE,
                                   result |-> [kind |-> "none"]],
                                  bytes, extensionsAllowed)
                    IN  IF st.result.kind # "none" THEN st.result
                        ELSE IF ~st.foundImageData
                        THEN Identified("false",
                                 "File ends without containing at least one image data block.")
                        ELSE Identified("true", "Potentially valid GIF image, pending decode.")

(***************************************************************************)
(* VGA palette identification (formats/pal-vga-8bit.js, pal-vga-6bit.js,   *)
(* pal-vga-6bit-papyrus.js).                                               *)
(***************************************************************************)

\* The length of a full palette: 256 entries of three bytes.
PaletteFileLength == 768

\* Some byte from index `from` on is above 64.
HasByteAbove63(bytes, from) == \E i \in from + 1..Len(bytes) : bytes[i] > 63
HasByteAbove64(bytes, from) == \E i \in from + 1..Len(bytes) : bytes[i] > 64

\* pal_vga_8bit.identify(content)
Pal8_identify(bytes) ==
    IF Len(bytes) # PaletteFileLength THEN Identified("false", "File length is not 768.")
    ELSE IF bytes[1] # 0 \/ bytes[2] # 0 \/ bytes[3] # 0
    THEN Identified("false", "First colour isn't black.")
    ELSE IF ~HasByteAbove64(bytes, 0)
    THEN Identified("false", "No colour values are > 64, unlikely to be an 8-bit palette.")
    ELSE Identified("true", "Correct file size and starts with black.")

\* pal_vga_6bit.identify(content)
Pal6_identify(bytes) ==
    IF Len(bytes) # PaletteFileLength THEN Identified("false", "File length is not 768.")
    ELSE IF bytes[1] # 0 \/ bytes[2] # 0 \/ bytes[3] # 0
    THEN Identified("false", "First colour isn't black.")
    ELSE IF HasByteAbove64(bytes, 0)
    THEN Identified("false", "Colour has value > 64, not 6-bit palette.")
    ELSE Identified("true", "Correct file size and starts with black.")

\* The entry count of a Papyrus header: 0 stands for 256.
PapyrusNumEntriesRaw(countByte) == countByte
PapyrusNumEntries(countByte) == IF countByte = 0 THEN 256 ELSE countByte

\* pal_vga_6bit_papyrus.identify(content)
Papyrus_identify(bytes) ==
    IF Len(bytes) < 6
    THEN Identified("false", "File length is smaller than minimum for this type (6).")
    ELSE IF bytes[1] # 0 THEN Identified("false", "First byte is nonzero.")
    ELSE
        LET numEntries == PapyrusNumEntries(bytes[3])
            expectedLength == numEntries * 3 + 3
        IN  IF Len(bytes) # expectedLength
            THEN Identified("false", "File length does not match expected length.")
            ELSE IF bytes[2] + numEntries > 256
            THEN Identified("false", "Colour count and starting index overruns VGA palette size.")
            ELSE IF HasByteAbove64(bytes, 3)
            THEN Identified("false", "Colour has value > 64, not 6-bit palette.")
            ELSE Identified("true", "Valid file size, start byte, and colour indexing.")

(***************************************************************************)
(* Dangerous Dave tileset (tls-ddave): identify and read.                  *)
(***************************************************************************)

FIRST_TILE_WITH_DIMS == 53

\* metadata().limits.frameCount of the Dangerous Dave handlers.
DDaveFrameCountMin == 1
DDaveFrameCountMax == 158

roundMultiple(value, multiple) == value + ((multiple - (value % multiple)) % multiple)

\* imageBitDepth() of the VGA and EGA handlers.
imageBitDepth(handler) == IF handler = "tls-ddave-vga" THEN 8 ELSE 4

\* One iteration of the tile loop of identify: tile st.i.
DDaveIdentifyStep(st, bytes, depth) ==
    LET thisOffset == ReadU32le(bytes, st.pos)
        tileSize == IF st.i >= FIRST_TILE_WITH_DIMS /\ thisOffset + 4 <= Len(bytes)
                    THEN 4 + (roundMultiple(ReadU16le(bytes, thisOffset), 8)
                              * ReadU16le(bytes, thisOffset + 2) * depth) \div 8
                    ELSE st.tileSize
        endOfLastTile == thisOffset + tileSize
    IN  IF ~CanRead(bytes, st.pos, 4)
        THEN [st EXCEPT !.result = Throw("RangeError")]
        ELSE IF thisOffset + 4 > Len(bytes)
        THEN [st EXCEPT !.result = Identified("false", "Tile starts at EOF.")]
        ELSE IF endOfLastTile > Len(bytes)
        THEN [st EXCEPT !.result = Identified("false", "Tile runs past EOF.")]
        ELSE [st EXCEPT !.i = st.i + 1, !.pos = st.pos + 4, !.tileSize = tileSize,
                        !.endOfLastTile = endOfLastTile]

\* Up to n iterations of the tile loop of identify, split in halves.
RECURSIVE DDaveIdentifyIterate(_, _, _, _, _)
DDaveIdentifyIterate(st, bytes, depth, count, n) ==
    IF n = 0 \/ st.i >= count \/ st.result.kind # "none" THEN st
    ELSE IF n = 1 THEN DDaveIdentifyStep(st, bytes, depth)
    ELSE DDaveIdentifyIterate(DDaveIdentifyIterate(st, bytes, depth, count, n \div 2),
                              bytes, depth, count, n - n \div 2)

\* Tileset_DDave_Common.identify(content) for the handler of the given id.
DDave_identify(bytes, handler) ==
    IF Len(bytes) < 4 THEN Identified("false", "File too short.")
    ELSE
        LET count == ReadU32le(bytes, 0)
            depth == imageBitDepth(handler)
        IN  IF Len(bytes) < 4 + count * 4 THEN Identified("false", "FAT truncated.")
            ELSE IF count < DDaveFrameCountMin THEN Identified("false", "Too few tiles.")
            ELSE
                LET st == DDaveIdentifyIterate(
                              [i |-> 0, pos |-> 4, tileSize |-> (16 * 16 * depth) \div 8,
                               endOfLastTile |-> 0, result |-> [kind |-> "none"]],
                              bytes, depth, count, count)
                IN  IF st.result.kind # "none" THEN st.result
                    ELSE IF Len(bytes) - st.endOfLastTile > 8
                    THEN Identified("false", "bytes of trailing data after tiles.")
                    ELSE Identified("true", "All checks passed.")

\* The offset table as read() reads it: count entries from byte 4 on, each
\* inside the file or not.
DDaveFatReadable(bytes, count) == \A i \in 1..count : CanRead(bytes, 4 * i, 4)

\* sizes[] of read(): the differences of consecutive offsets, then the
\* distance from the last offset to the end of the file (lastOffset is -1
\* when there are no tiles).
DDaveSizes(bytes, count) ==
    IF count = 0 THEN <<Len(bytes) + 1>>
    ELSE [i \in 1..count |->
            IF i < count
            THEN ReadU32le(bytes, 4 * (i + 1)) - ReadU32le(bytes, 4 * i)
            ELSE Len(bytes) - ReadU32le(bytes, 4 * count)]

\* createFrame(width, height, pixelData) of the VGA and EGA handlers: the
\* frame, or the error fromPlanar throws.
DDave_createFrame(handler, width, height, pixelData) ==
    IF handler = "tls-ddave-vga"
    THEN Frame(width, height, NewArray(pixelData), NoPalette)
    ELSE LET pixels == fromPlanar([content |-> pixelData, planeCount |-> 4,
                                   planeWidth |-> ((width + 7) \div 8) * 8,
                                   planeValues |-> <<8, 4, 2, 1>>,
                                   byteOrderMSB |-> TRUE])
         IN  IF pixels.kind = "error" THEN pixels
             ELSE Frame(width, height, NewArray(pixels.bytes), NoPalette)

\* One iteration of the tile loop of read: tile st.i.  The loop is left
\* (done) when the tile would end past the end of the file.
DDaveReadStep(st, bytes, handler, sizes) ==
    LET hasDims == st.i >= FIRST_TILE_WITH_DIMS
        lenHeader == IF hasDims THEN 4 ELSE 0
        frameWidth == IF hasDims /\ CanRead(bytes, st.thisOffset, 4)
                      THEN ReadU16le(bytes, st.thisOffset) ELSE st.frameWidth
        frameHeight == IF hasDims /\ CanRead(bytes, st.thisOffset, 4)
                       THEN ReadU16le(bytes, st.thisOffset + 2) ELSE st.frameHeight
        offStart == st.thisOffset + lenHeader
        lenTile == sizes[st.i + 1] - lenHeader
        offEnd == offStart + lenTile
        img == DDave_createFrame(handler, frameWidth, frameHeight,
                                 SubSeq(bytes, offStart + 1, offStart + lenTile))
    IN  IF hasDims /\ ~CanRead(bytes, st.thisOffset, 4)
        THEN [st EXCEPT !.result = Throw("RangeError")]
        ELSE IF offEnd > Len(bytes)
        THEN [st EXCEPT !.done = TRUE]
        ELSE IF lenTile < 0 \/ ~CanRead(bytes, offStart, lenTile)
        THEN [st EXCEPT !.result = Throw("RangeError")]
        ELSE IF img.kind = "error"
        THEN [st EXCEPT !.result = img]
        ELSE [st EXCEPT !.i = st.i + 1,
                        !.frameWidth = frameWidth, !.frameHeight = frameHeight,
                        !.frames = Append(st.frames, img),
                        !.thisOffset = st.thisOffset + sizes[st.i + 1]]

\* Up to n iterations of the tile loop of read, split in halves.
RECURSIVE DDaveReadIterate(_, _, _, _, _, _)
DDaveReadIterate(st, bytes, handler, sizes, count, n) ==
    IF n = 0 \/ st.i >= count \/ st.done \/ st.result.kind # "none" THEN st
    ELSE IF n = 1 THEN DDaveReadStep(st, bytes, handler, sizes)
    ELSE DDaveReadIterate(DDaveReadIterate(st, bytes, handler, sizes, count, n \div 2),
                          bytes, handler, sizes, count, n - n \div 2)

\* Tileset_DDave_Common.read(content): the image read, or the error thrown.
DDave_read(bytes, handler) ==
    IF ~CanRead(bytes, 0, 4) THEN Throw("RangeError")
    ELSE
        LET count == ReadU32le(bytes, 0)
        IN  IF ~DDaveFatReadable(bytes, count) THEN Throw("RangeError")
            ELSE
                LET st == DDaveReadIterate(
                              [i |-> 0, frameWidth |-> 16, frameHeight |-> 16,
                               thisOffset |-> IF count = 0 THEN -1
                                              ELSE ReadU32le(bytes, 4),
                               frames |-> <<>>, done |-> FALSE,
                               result |-> [kind |-> "none"]],
                              bytes, handler, DDaveSizes(bytes, count), count, count)
                IN  IF st.result.kind # "none" THEN st.result
                    ELSE [kind |-> "image", frames |-> st.frames]

(***************************************************************************)
(* Limits (interface/imageHandler.js) and the writers of the Roll and      *)
(* Dangerous Dave formats.                                                 *)
(***************************************************************************)

\* new Image(params) and new Frame(params): the defaults of the
\* constructors.  The tags are the set of the keys of Image.tags.
Image(width, height, hotspotX, hotspotY, frames, tags) ==
    [kind |-> "image", width |-> OrElse(width, 0), height |-> OrElse(height, 0),
     hotspotX |-> OrElse(hotspotX, Undefined), hotspotY |-> OrElse(hotspotY, Undefined),
     frames |-> frames, tags |-> tags]
NewFrame(width, height, hotspotX, hotspotY, pixels) ==
    [width |-> OrElse(width, Undefined), height |-> OrElse(height, Undefined),
     hotspotX |-> OrElse(hotspotX, Undefined), hotspotY |-> OrElse(hotspotY, Undefined),
     pixels |-> pixels]

\* metadata().limits of a handler: frameCount, maximumSize, depth,
\* transparentIndex (Undefined for null) and the keys of tags.  The
\* handlers that declare a minimumSize or a multipleSize come first.
Limits(handler) ==
    CASE handler = "img-ccomic-splash" ->
             [frameCountMin |-> 1, frameCountMax |-> 1,
              minimumSizeX |-> 320, minimumSizeY |-> 200,
              maximumSizeX |-> 320, maximumSizeY |-> 200, multipleSizeX |-> 1,
              depth |-> 4, transparentIndex |-> Undefined, tags |-> {}]
      [] handler = "img-raw-planar-4bpp" ->
             [frameCountMin |-> 1, frameCountMax |-> 1,
              minimumSizeX |-> 0, minimumSizeY |-> 0,
              maximumSizeX |-> Undefined, maximumSizeY |-> Undefined, multipleSizeX |-> 8,
              depth |-> 4, transparentIndex |-> Undefined, tags |-> {}]
      [] handler \in {"img-stp-v1", "img-stp-v2"} ->
             [frameCountMin |-> 1, frameCountMax |-> 1,
              minimumSizeX |-> 0, minimumSizeY |-> 0, multipleSizeX |-> 1,
              maximumSizeX |-> Undefined, maximumSizeY |-> Undefined,
              depth |-> 8, transparentIndex |-> 255, tags |-> {}]
      [] handler \in {"img-rol-v1", "img-rol-v2"} ->
             [frameCountMin |-> 1, frameCountMax |-> Undefined,
              minimumSizeX |-> 0, minimumSizeY |-> 0, multipleSizeX |-> 1,
              maximumSizeX |-> Undefined, maximumSizeY |-> Undefined,
              depth |-> 8, transparentIndex |-> 255, tags |-> {}]
      [] handler \in {"tls-ddave-vga", "tls-ddave-ega"} ->
             [frameCountMin |-> DDaveFrameCountMin, frameCountMax |-> DDaveFrameCountMax,
              minimumSizeX |-> 0, minimumSizeY |-> 0, multipleSizeX |-> 1,
              maximumSizeX |-> Undefined, maximumSizeY |-> Undefined,
              depth |-> 8, transparentIndex |-> Undefined, tags |-> {}]
      [] OTHER ->
             [frameCountMin |-> 1, frameCountMax |-> 1,
              minimumSizeX |-> 0, minimumSizeY |-> 0, multipleSizeX |-> 1,
              maximumSizeX |-> 16, maximumSizeY |-> 16,
              depth |-> 4, transparentIndex |-> Undefined, tags |-> {}]

Issue(what, frame) == [issue |-> what, frame |-> frame]

\* A check of frame f that stops at the first problem it finds.
FrameIssuesFirstOnly(img, limits, f) ==
    LET frame == img.frames[f + 1]
        frameWidth == IF frame.width = Undefined THEN img.width ELSE frame.width
        frameHeight == IF frame.height = Undefined THEN img.height ELSE frame.height
        maxIndex == Shl(1, IF limits.depth = Undefined THEN 0 ELSE limits.depth)
    IN  IF limits.maximumSizeX # Undefined /\ frameWidth > limits.maximumSizeX
        THEN <<Issue("width", f)>>
        ELSE IF limits.maximumSizeY # Undefined /\ frameHeight > limits.maximumSizeY
        THEN <<Issue("height", f)>>
        ELSE IF \E i \in 1..Len(frame.pixels) :
                    frame.pixels[i] >= maxIndex /\ frame.pixels[i] # limits.transparentIndex
        THEN <<Issue("colour", f)>>
        ELSE <<>>

\* The issues checkLimits pushes for frame f (counted from 0), in order.
FrameIssues(img, limits, f) ==
    LET frame == img.frames[f + 1]
        frameWidth == IF frame.width = Undefined THEN img.width ELSE frame.width
        frameHeight == IF frame.height = Undefined THEN img.height ELSE frame.height
        maxIndex == Shl(1, IF limits.depth = Undefined THEN 0 ELSE limits.depth)
        bad == {i \in 1..Len(frame.pixels) :
                   frame.pixels[i] >= maxIndex /\ frame.pixels[i] # limits.transparentIndex}
    IN  (IF limits.maximumSizeX # Undefined /\ frameWidth > limits.maximumSizeX
         THEN <<Issue("width", f)>> ELSE <<>>)
        \o (IF limits.maximumSizeY # Undefined /\ frameHeight > limits.maximumSizeY
            THEN <<Issue("height", f)>> ELSE <<>>)
        \o (IF bad # {} THEN <<Issue("colour", f)>> ELSE <<>>)

\* The issues of all frames, in frame order.
FramesIssues(img, limits) ==
    ConcatOver(LAMBDA f : FrameIssues(img, limits, f), 0, Len(img.frames) - 1)

\* The tags an image has and the format cannot write, as a sequence.
RECURSIVE TagIssues(_)
TagIssues(tags) ==
    IF tags = {} THEN <<>>
    ELSE LET t == CHOOSE t \in tags : TRUE
         IN  <<Issue(t, Undefined)>> \o TagIssues(tags \ {t})

\* ImageHandler.checkLimits(img) for one image under the given limits.
checkLimits(img, limits) ==
    (IF limits.frameCountMax # Undefined /\ Len(img.frames) > limits.frameCountMax
     THEN <<Issue("too many frames", Undefined)>> ELSE <<>>)
    \o (IF Len(img.frames) < limits.frameCountMin
        THEN <<Issue("too few frames", Undefined)>> ELSE <<>>)
    \o FramesIssues(img, limits)
    \o TagIssues(img.tags \ limits.tags)

\* The issues Tileset_DDave_Common.checkLimits adds: one for each of the
\* first 53 frames that is not 16x16.
DDaveSizeIssues(img) ==
    ConcatOver(LAMBDA f : IF img.frames[f + 1].width # 16 \/ img.frames[f + 1].height # 16
                          THEN <<Issue("not 16x16", f)>> ELSE <<>>,
               0, (IF Len(img.frames) < 53 THEN Len(img.frames) ELSE 53) - 1)

DDave_checkLimits(img, limits) == checkLimits(img, limits) \o DDaveSizeIssues(img)

\* What Tileset_DDave_Common.write puts in the main buffer for frame f
\* (counted from 0): the tile header from tile 53 on, then the pixel data
\* (VGA: frame.pixels).
DDaveWriteFrame(img, f) ==
    (IF f >= FIRST_TILE_WITH_DIMS
     THEN WriteU16le(img.frames[f + 1].width) \o WriteU16le(img.frames[f + 1].height)
     ELSE <<>>)
    \o img.frames[f + 1].pixels

\* The main buffer once frames 0..f-1 are written.
DDaveWriteMain(img, f) == ConcatOver(LAMBDA k : DDaveWriteFrame(img, k), 0, f - 1)

\* Tileset_DDave_Common.write(image) of the VGA handler.
DDave_write(img) ==
    LET offEndFAT == 4 + 4 * Len(img.frames)
    IN  [kind |-> "content",
         main |-> WriteU32le(Len(img.frames))
                  \o ConcatOver(LAMBDA f : WriteU32le(offEndFAT + Len(DDaveWriteMain(img, f))),
                                0, Len(img.frames) - 1)
                  \o DDaveWriteMain(img, Len(img.frames))]

\* The image the Roll writer hands to the Stamp writer for frame i.
RolFrameImage(img, i) ==
    LET frame == img.frames[i]
    IN  Image(IF frame.width = Undefined THEN img.width ELSE frame.width,
              IF frame.height = Undefined THEN img.height ELSE frame.height,
              frame.hotspotX, frame.hotspotY, <<frame>>, {})

\* stpData[i]: the Stamp file of frame i (counted from 0).
RolStpFile(img, rolVersion, i) == writeByVersion(RolFrameImage(img, i + 1), rolVersion).main

\* The Stamp files of the first n frames, one after the other.
RolStpData(img, rolVersion, n) ==
    ConcatOver(LAMBDA i : RolStpFile(img, rolVersion, i), 0, n - 1)

\* The offset table the Roll writer emits: headerSize for the first frame,
\* headerSize + stpDataSizes[i] for each later frame i.
RolOffsetTable(img, rolVersion, n) ==
    LET headerSize == Len(img.frames) * 4
    IN  ConcatOver(LAMBDA i : WriteU32le(IF i = 0 THEN headerSize
                                         ELSE headerSize + Len(RolStpFile(img, rolVersion, i))),
                   0, n - 1)

\* img_rol_common.writeByVersion(image, rolVersion): the content, the error
\* thrown, or the object returned for an image without frames.
Rol_writeByVersion(img, rolVersion) ==
    IF rolVersion # 1 /\ rolVersion # 2 THEN Throw("ROL version must be either 1 and 2.")
    ELSE IF Len(img.frames) < 1
    THEN Identified("false", "This format requires at least one frame.")
    ELSE [kind |-> "content",
          main |-> RolOffsetTable(img, rolVersion, Len(img.frames))
                   \o RolStpData(img, rolVersion, Len(img.frames))]

\* Uint8Array.prototype.slice(begin, end).
JsSlice(bytes, begin, end) ==
    LET clamp(k) == IF k < 0 THEN Max(Len(bytes) + k, 0)
                    ELSE IF k > Len(bytes) THEN Len(bytes) ELSE k
    IN  SubSeq(bytes, clamp(begin) + 1, clamp(end))

\* startOffsets[i] of readByVersion, i counted from 0.
RolStartOffset(main, i) == IF i = 0 THEN ReadU32le(main, 0) ELSE ReadU32le(main, 4 * i)

\* The Stamp image read for frame i of frameCount.
RolReadFrame(main, rolVersion, frameCount, i) ==
    LET start == RolStartOffset(main, i)
        length == IF i = frameCount - 1 THEN Len(main) - start
                  ELSE RolStartOffset(main, i + 1) - start
    IN  readByVersion(JsSlice(main, start, start + length), rolVersion)

\* The frames of readByVersion, or the error of the first frame whose
\* Stamp read throws.
RolReadFrames(main, rolVersion, frameCount) ==
    LET failed == {i \in 0..frameCount - 1 :
                      RolReadFrame(main, rolVersion, frameCount, i).kind = "error"}
        frameOf(i) ==
            LET stpImg == RolReadFrame(main, rolVersion, frameCount, i)
            IN  <<NewFrame(stpImg.width, stpImg.height, stpImg.hotspotX,
                           stpImg.hotspotY, stpImg.frames[1].pixels)>>
    IN  IF failed # {}
        THEN RolReadFrame(main, rolVersion, frameCount,
                          CHOOSE i \in failed : \A j \in failed : i <= j)
        ELSE [kind |-> "frames", frames |-> ConcatOver(frameOf, 0, frameCount - 1)]

\* img_rol_common.readByVersion(content, rolVersion).
Rol_readByVersion(main, rolVersion) ==
    IF rolVersion # 1 /\ rolVersion # 2 THEN Throw("ROL version must be either 1 and 2.")
    ELSE IF ~CanRead(main, 0, 4) THEN Throw("RangeError")
    ELSE
        LET headerSize == ReadU32le(main, 0)
            frameCount == headerSize \div 4
        IN  IF frameCount > 1 /\ ~CanRead(main, 4 * (frameCount - 1), 4)
            THEN Throw("RangeError")
            ELSE
                LET read == RolReadFrames(main, rolVersion, frameCount)
                IN  IF read.kind = "error" THEN read
                    ELSE Image(IF frameCount = 0 THEN Undefined ELSE read.frames[1].width,
                               IF frameCount = 0 THEN Undefined ELSE read.frames[1].height,
                               Undefined, Undefined, read.frames, {})

(***************************************************************************)
(* Inputs.  A pixel buffer is a concatenation of segments; a segment is a  *)
(* run of one colour (c = c2) or an alternation of two colours, so that    *)
(* the run-length caps and the direct-copy cap of the encoders are reached *)
(* with few segments.                                                      *)
(***************************************************************************)

\* Number of segments of a pixel buffer handed to an encoder.
MaxSegs == 2

\* Number of bytes of a hand-made encoded stream handed to a decoder.
MaxStream == 4

\* Length of the pixel buffers tried with every combination of colours.
MaxPixels == 6

Segments(colors, lens) == [c : colors, c2 : colors, len : lens]

ExpandSegment(seg) == [i \in 1..seg.len |-> IF i % 2 = 1 THEN seg.c ELSE seg.c2]

RECURSIVE SegmentBuffers(_, _, _)
SegmentBuffers(colors, lens, n) ==
    IF n = 0 THEN {<<>>}
    ELSE LET shorter == SegmentBuffers(colors, lens, n - 1)
         IN  shorter \cup {p \o ExpandSegment(seg) :
                               p \in shorter, seg \in Segments(colors, lens)}

RECURSIVE ByteStreams(_, _)
ByteStreams(bytes, n) ==
    IF n = 0 THEN {<<>>}
    ELSE LET shorter == ByteStreams(bytes, n - 1)
         IN  shorter \cup {Append(p, b) : p \in shorter, b \in bytes}

\* A single-frame Image as a reader returns it: the dimensions are the
\* image's and the frame inherits them.
SingleFrameImage(w, h, hot, pixels) ==
    [kind |-> "image", width |-> w, height |-> h,
     hotspotX |-> hot[1], hotspotY |-> hot[2],
     frames |-> << [width |-> Undefined, height |-> Undefined, pixels |-> pixels] >>]

\* The same picture with the dimensions set on the frame instead.
OwnSizeImage(w, h, hot, pixels) ==
    [kind |-> "image", width |-> Undefined, height |-> Undefined,
     hotspotX |-> hot[1], hotspotY |-> hot[2],
     frames |-> << [width |-> w, height |-> h, pixels |-> pixels] >>]

\* The effective size of the only frame of an image.
FrameWidthOf(img) ==
    IF img.frames[1].width = Undefined THEN img.width ELSE img.frames[1].width
FrameHeightOf(img) ==
    IF img.frames[1].height = Undefined THEN img.height ELSE img.frames[1].height

\* The shapes tried for a buffer of n pixels.
ShapesOf(n) ==
    IF n = 0 THEN {<<0, 0>>, <<3, 0>>}
    ELSE {<<n, 1>>} \cup (IF n % 2 = 0 THEN {<<n \div 2, 2>>} ELSE {})

NoImage == [kind |-> "none"]
NoResult == [kind |-> "none"]

StpColors == {7, 255}
StpSegmentLens == {1, 2, 3, 63, 64, 127, 128}
StpPixelBuffers(segs, n) ==
    SegmentBuffers(StpColors, StpSegmentLens, segs)
        \cup ByteStreams({7, 8, 255}, n)
StpHotspots == {<<0, 0>>, <<-3, 5>>}

StpImages(segs, n) ==
    UNION {{SingleFrameImage(d[1], d[2], <<0, 0>>, px) : d \in ShapesOf(Len(px))} :
              px \in StpPixelBuffers(segs, n)}
    \cup {OwnSizeImage(Len(px), 1, hot, px) :
              px \in SegmentBuffers(StpColors, {1, 2}, segs), hot \in StpHotspots}

\* Control bytes of each kind, pixel bytes, and counts of 0, 2, 3 and 127.
StpStreamBytes == {0, 2, 7, 66, 131, 255}
StpRawShapes == {<<0, 0>>, <<1, 1>>, <<2, 1>>, <<2, 2>>, <<63, 2>>, <<127, 1>>, <<64, 2>>}
StpRawFiles(stpVersion, n) ==
    {(IF stpVersion = 1 THEN <<1, 0>> ELSE <<>>)
        \o WriteU16le(d[1]) \o WriteU16le(d[2]) \o <<0, 0, 0, 0>> \o stream :
        d \in StpRawShapes, stream \in ByteStreams(StpStreamBytes, n)}

(***************************************************************************)
(* The Stamp handlers, applied.                                            *)
(***************************************************************************)

InitStp ==
    /\ \E v \in {1, 2} : params = [handler |-> "stp", stpVersion |-> v]
    /\ result = NoResult
    /\ \/ /\ image \in StpImages(MaxSegs, MaxPixels)
          /\ content = <<>>
          /\ pc = "write"
       \/ /\ image = NoImage
          /\ content \in StpRawFiles(params.stpVersion, MaxStream)
          /\ pc = "identify"

\* img_stp_v1.write / img_stp_v2.write
StpWrite ==
    /\ params.handler = "stp"
    /\ pc = "write"
    /\ result' = writeByVersion(image, params.stpVersion)
    /\ content' = IF result'.kind = "content" THEN result'.main ELSE content
    /\ pc' = IF result'.kind = "content" THEN "identify" ELSE "done"
    /\ UNCHANGED <<params, image>>

\* img_stp_v1.identify / img_stp_v2.identify
StpIdentify ==
    /\ params.handler = "stp"
    /\ pc = "identify"
    /\ result' = identifyByVersion(content, params.stpVersion)
    /\ pc' = "read"
    /\ UNCHANGED <<params, image, content>>

\* img_stp_v1.read / img_stp_v2.read
StpRead ==
    /\ params.handler = "stp"
    /\ pc = "read"
    /\ result' = readByVersion(content, params.stpVersion)
    /\ pc' = "done"
    /\ UNCHANGED <<params, image, content>>

NextStp == StpWrite \/ StpIdentify \/ StpRead

SpecStp == InitStp /\ [][NextStp]_vars

(***************************************************************************)
(* The Delta handler, applied.                                             *)
(***************************************************************************)

DelColors == {10, 12, 255}
DelSegmentLens == {1, 3, 64}
DelPixelBuffers(segs, n) ==
    SegmentBuffers(DelColors, DelSegmentLens, segs)
        \cup ByteStreams({10, 12, 200, 255}, n)
        \cup {Repeat(PAL_TRANSPARENCY_INDEX, 256)}

DelImages(segs, n) ==
    UNION {{SingleFrameImage(d[1], d[2], <<Undefined, Undefined>>, px) :
               d \in ShapesOf(Len(px))} : px \in DelPixelBuffers(segs, n)}

\* Commands of each kind (literal, repeat, transparency with and without
\* the escape, delta sequences of length 0 and 3) and data bytes.
DelStreamBytes == {0, 2, 3, 10, 12, 13, 31}
DelRawShapes == {<<0, 0>>, <<1, 1>>, <<2, 1>>, <<2, 2>>, <<3, 2>>}
DelRawFiles(n) ==
    {WriteU16le(d[1]) \o WriteU16le(d[2]) \o stream :
        d \in DelRawShapes, stream \in ByteStreams(DelStreamBytes, n)}

InitDel ==
    /\ params = [handler |-> "del"]
    /\ result = NoResult
    /\ \/ /\ image \in DelImages(MaxSegs, MaxPixels)
          /\ content = <<>>
          /\ pc = "write"
       \/ /\ image = NoImage
          /\ content \in DelRawFiles(MaxStream)
          /\ pc = "read"

\* Image_Del.write
DelWrite ==
    /\ params.handler = "del"
    /\ pc = "write"
    /\ result' = Image_Del_write(image)
    /\ content' = IF result'.kind = "content" THEN result'.main ELSE content
    /\ pc' = IF result'.kind = "content" THEN "read" ELSE "done"
    /\ UNCHANGED <<params, image>>

\* Image_Del.read
DelRead ==
    /\ params.handler = "del"
    /\ pc = "read"
    /\ result' = Image_Del_read(content)
    /\ pc' = "done"
    /\ UNCHANGED <<params, image, content>>

NextDel == DelWrite \/ DelRead

SpecDel == InitDel /\ [][NextDel]_vars

(***************************************************************************)
(* The bitplane codec, applied: one conversion and then its inverse.       *)
(***************************************************************************)

\* Number of pixel rows (plane groups) of a buffer handed to the codec.
MaxRows == 2

\* Plane layouts in use: mono, two planes in either order, BGRI of the raw
\* EGA formats, MIRGB of the masked tilesets.
PlaneValueLists == {<<1>>, <<1, 2>>, <<2, 1>>, <<1, 2, 4, 8>>, <<16, 8, 4, 2, 1>>}
PlaneWidths == {8, 16}

\* Plane widths whose byte width Math.ceil(planeWidth / 8) is 0 or less.
BadPlaneWidths == {0, -1, -8, -9}

\* Buffers are made by repeating a pattern from some offset.
PatternBuffer(pat, off, n) == [i \in 1..n |-> pat[((i - 1 + off) % Len(pat)) + 1]]
PatternBuffers(pats, n) ==
    UNION {{PatternBuffer(pat, off, n) : off \in 0..(Len(pat) - 1)} : pat \in pats}

PlanarBytePatterns ==
    {<<255, 112, 63, 24>>, <<85, 170, 255, 1, 128>>, <<0>>, <<255>>,
     <<1, 2, 4, 8, 16, 32, 64, 128, 0>>}

LinearPixelPatterns ==
    {<<1, 3, 7, 15, 13, 5, 5, 5>>, <<6, 5, 6, 5, 6, 5, 6, 13, 0>>, <<0>>,
     <<1, 2, 4, 8, 16, 31, 0>>, <<255, 32, 17>>}

PlanarArgs(buf, planeWidth, planeValues, byteOrderMSB) ==
    [content |-> buf, planeCount |-> Len(planeValues), planeWidth |-> planeWidth,
     planeValues |-> planeValues, byteOrderMSB |-> byteOrderMSB]

InitPlanar ==
    \E planeValues \in PlaneValueLists, planeWidth \in PlaneWidths \cup BadPlaneWidths,
       byteOrderMSB \in BOOLEAN, rows \in 0..MaxRows,
       first \in {"fromPlanar", "toPlanar"} :
        /\ params = [handler |-> "planar", first |-> first,
                     planeCount |-> Len(planeValues), planeWidth |-> planeWidth,
                     planeValues |-> planeValues, byteOrderMSB |-> byteOrderMSB]
        /\ result = NoResult
        /\ IF first = "fromPlanar"
           THEN /\ pc = <<"fromPlanar", "toPlanar">>
                /\ image \in PatternBuffers(PlanarBytePatterns,
                       IF planeWidth \in BadPlaneWidths THEN rows * 8
                       ELSE rows * Len(planeValues) * PlanarWidthBytes(planeWidth))
           ELSE /\ pc = <<"toPlanar", "fromPlanar">>
                /\ image \in PatternBuffers(LinearPixelPatterns,
                       IF planeWidth \in BadPlaneWidths THEN rows * 8
                       ELSE rows * planeWidth)
        /\ content = image

\* A call of fromPlanar on the current buffer.
FromPlanar ==
    /\ params.handler = "planar"
    /\ pc # <<>> /\ Head(pc) = "fromPlanar"
    /\ result' = fromPlanar(PlanarArgs(content, params.planeWidth, params.planeValues,
                                       params.byteOrderMSB))
    /\ content' = IF result'.kind = "bytes" THEN result'.bytes ELSE content
    /\ pc' = IF result'.kind = "bytes" THEN Tail(pc) ELSE <<>>
    /\ UNCHANGED <<params, image>>

\* A call of toPlanar on the current buffer.
ToPlanar ==
    /\ params.handler = "planar"
    /\ pc # <<>> /\ Head(pc) = "toPlanar"
    /\ result' = toPlanar(PlanarArgs(content, params.planeWidth, params.planeValues,
                                     params.byteOrderMSB))
    /\ content' = IF result'.kind = "bytes" THEN result'.bytes ELSE content
    /\ pc' = IF result'.kind = "bytes" THEN Tail(pc) ELSE <<>>
    /\ UNCHANGED <<params, image>>

NextPlanar == FromPlanar \/ ToPlanar

SpecPlanar == InitPlanar /\ [][NextPlanar]_vars

(***************************************************************************)
(* The tile compositor, applied: a tileset is composed into one frame and  *)
(* the frame is split again; or a given frame is split.                    *)
(***************************************************************************)

\* Number of tiles of a tileset, and of tiles requested from a given frame.
MaxTiles == 3
MaxRawTiles == 2

\* Tile widths and heights; the heights requested of a given frame go
\* one past the tallest frame.
TileWidths == {1, 2, 3}
TileHeights == {1, 2}
RawTileHeights == {1, 2, 3}

\* Tile sizes, and lists of up to n of them.
TileDims(widths, heights) == [width : widths, height : heights]
TileDimLists(dims, n) == UNION {[1..k -> dims] : k \in 1..n}

\* The pixels of tile f (counting from 1): no two pixels of a tileset are
\* equal and none is 0, so a pixel taken from the wrong place shows.
TilePixels(f, dim) == [i \in 1..(dim.width * dim.height) |-> 16 * f + i]

\* Palettes: none, or one whose entry 1 is transparent.
TilePalettes == {NoPalette, Palette(<<255, 0, 255>>)}

\* The background colour asked for: none, or a colour no tile has.
TileBackgrounds == {Undefined, 9}

\* new Image({ frames }) with one frame per tile.
TilesImage(dims, palette) ==
    [kind |-> "image", width |-> Undefined, height |-> Undefined,
     palette |-> NoPalette,
     frames |-> [f \in 1..Len(dims) |->
                    Frame(dims[f].width, dims[f].height,
                          NewArray(TilePixels(f, dims[f])), palette)]]

\* Frames whose pixels are a view into a larger buffer, or a whole buffer.
RawFrames ==
    {Frame(w, h, [buffer |-> [i \in 1..(off + w * h + slack) |-> i],
                  byteOffset |-> off, length |-> w * h], NoPalette) :
        w \in TileWidths, h \in TileHeights, off \in {0, 1, 4}, slack \in {0, 2}}

InitTiles ==
    /\ result = NoResult
    /\ \/ \E dims \in TileDimLists(TileDims(TileWidths, TileHeights), MaxTiles),
             width \in 1..MaxTiles, palette \in TilePalettes, bg \in TileBackgrounds :
            /\ params = [handler |-> "tiles", width |-> width, tileDims |-> dims,
                         bg |-> bg]
            /\ image = TilesImage(dims, palette)
            /\ content = NoImage
            /\ pc = "compose"
       \/ \E frame \in RawFrames,
             dims \in TileDimLists(TileDims(TileWidths, RawTileHeights), MaxRawTiles) :
            /\ params = [handler |-> "tiles", width |-> 0, tileDims |-> dims,
                         bg |-> Undefined]
            /\ image = NoImage
            /\ content = frame
            /\ pc = "decompose"

\* frameFromTileset(image, width) on the tileset.
TilesCompose ==
    /\ params.handler = "tiles" /\ pc = "compose"
    /\ result' = frameFromTileset(image, params.width, params.bg)
    /\ content' = IF result'.kind = "frame" THEN result' ELSE content
    /\ pc' = IF result'.kind = "frame" THEN "decompose" ELSE "done"
    /\ UNCHANGED <<params, image>>

\* tilesetFromFrame on the current frame, at the tile sizes of params.
TilesDecompose ==
    /\ params.handler = "tiles" /\ pc = "decompose"
    /\ result' = tilesetFromFrame([frame |-> content, frameWidth |-> content.width,
                                   tileDims |-> params.tileDims, bg |-> params.bg])
    /\ content' = IF result'.kind = "tiles"
                  THEN [content EXCEPT !.pixels = FrameAfterTiles(@, result'.tiles, 1)]
                  ELSE content
    /\ pc' = "done"
    /\ UNCHANGED <<params, image>>

\* The values a caller stores into a tile it was given: no tile has them.
StoredPixels == {200}

\* tiles[k].pixels[0] = v, by the caller of tilesetFromFrame.
TileStore ==
    /\ params.handler = "tiles" /\ pc = "done" /\ result.kind = "tiles"
    /\ \E k \in 1..Len(result.tiles), v \in StoredPixels :
           /\ result' = [result EXCEPT !.tiles[k].pixels = StoreAt(@, 0, v)]
           /\ content' = IF TilePixelsBuffer = "new" THEN content
                         ELSE [content EXCEPT !.pixels = StoreAt(@, 0, v)]
    /\ pc' = "stored"
    /\ UNCHANGED <<params, image>>

NextTiles == TilesCompose \/ TilesDecompose \/ TileStore

SpecTiles == InitTiles /\ [][NextTiles]_vars

(***************************************************************************)
(* Identification: a handler is given a file and identifies it; the        *)
(* Dangerous Dave handlers then read it.                                   *)
(***************************************************************************)

\* Bound on the number of blocks after the GIF header.
MaxBlocks == 2

\* Bound on the number of tiles of the small Dangerous Dave files.
MaxFatEntries == 2

GifHandlers == {"img-gif-87a", "img-gif-89a", "img-imagex"}
DDaveHandlers == {"tls-ddave-vga", "tls-ddave-ega"}
PaletteHandlers == {"pal-vga-8bit", "pal-vga-6bit", "pal-vga-6bit-papyrus"}

\* The blocks a GIF file is made of, by kind; every one is complete.
GifBlockKinds ==
    {"graphic", "comment", "empty-ext", "image", "image-local", "image-badlzw", "trailer"}
GifExtensionKinds == {"graphic", "comment", "empty-ext"}
GifBlock(kind) ==
    CASE kind = "graphic" -> <<33, 249, 4, 0, 0, 0, 0, 0>>
      [] kind = "comment" -> <<33, 254, 1, 65, 0>>
      [] kind = "empty-ext" -> <<33, 254, 0>>
      [] kind = "image" -> <<44, 0, 0, 0, 0, 1, 0, 1, 0, 0>> \o <<2, 2, 76, 1, 0>>
      [] kind = "image-local" ->
             <<44, 0, 0, 0, 0, 1, 0, 1, 0, 128>> \o Repeat(0, 6) \o <<2, 1, 33, 0>>
      [] kind = "image-badlzw" -> <<44, 0, 0, 0, 0, 1, 0, 1, 0, 0>> \o <<1, 1, 0, 0>>
      [] OTHER -> <<59>>

GifBlockLists(n) == UNION {[1..k -> GifBlockKinds] : k \in 0..n}

RECURSIVE GifBody(_)
GifBody(blocks) ==
    IF blocks = <<>> THEN <<>> ELSE GifBlock(Head(blocks)) \o GifBody(Tail(blocks))

\* Magic word, logical screen descriptor and, when the packed field asks
\* for one, a two-colour global colour table.
GifHeader(magic, packedField) ==
    magic \o <<1, 0, 1, 0, packedField, 0, 0>>
          \o (IF packedField >= 128 THEN Repeat(0, GifColorTableSize(packedField)) ELSE <<>>)

\* A magic word that is not the handler's.
GifOtherMagic(handler) == IF handler = "img-gif-87a" THEN MagicGif89a ELSE MagicGif87a

\* The tile size identify() assumes for the first tiles.
DDaveTileSize(handler) == (16 * 16 * imageBitDepth(handler)) \div 8

\* Offsets an offset table entry may hold in a file of count tiles: the
\* start of the file, the first three tile boundaries after the table, four
\* bytes before the second boundary, and far past the end.
DDaveOffsets(handler, count) ==
    LET start == 4 + 4 * count
        size == DDaveTileSize(handler)
    IN  {0, start, start + size, start + size - 4, start + 2 * size, start + 100 * size}

\* Lengths of the data after the offset table; -1 cuts the table short.
DDaveDataLengths(handler) ==
    LET size == DDaveTileSize(handler)
    IN  {-1, 0, 4, size, size + 8, size + 9, 2 * size - 1, 2 * size}

\* The offset tables: any offsets for a few tiles, and for a file with
\* tiles that carry their own dimensions one offset for the fixed tiles
\* and one for the last tile.
DDaveTables(handler, count) ==
    IF count <= MaxFatEntries
    THEN [1..count -> DDaveOffsets(handler, count)]
    ELSE {[i \in 1..count |-> IF i < count THEN a ELSE b] :
             a \in DDaveOffsets(handler, count), b \in DDaveOffsets(handler, count)}

DDaveTableBytes(table) == ConcatOver(LAMBDA i : WriteU32le(table[i]), 1, Len(table))

DDaveFile(count, table, dataLength, fill) ==
    LET whole == WriteU32le(count) \o DDaveTableBytes(table)
    IN  IF dataLength < 0 THEN SubSeq(whole, 1, Len(whole) - 1)
        ELSE whole \o Repeat(fill, dataLength)

\* bytes with the byte at index `at` (from 0) replaced, when there is one.
WithByte(bytes, at, value) ==
    IF at >= 0 /\ at < Len(bytes) THEN [bytes EXCEPT ![at + 1] = value] ELSE bytes

\* Palette files of about the full length: a first colour, then one value
\* throughout, and one byte that may differ.
PaletteLengths == {0, PaletteFileLength - 1, PaletteFileLength, PaletteFileLength + 1}
PaletteFiles ==
    {WithByte(SubSeq(first \o Repeat(fill, PaletteFileLength), 1, length), at, value) :
        first \in {<<0, 0, 0>>, <<0, 0, 1>>, <<63, 0, 0>>},
        fill \in {0, 64},
        length \in PaletteLengths,
        at \in {3, 400, PaletteFileLength - 1},
        value \in {0, 64, 65, 255}}

\* Papyrus palette files: the first byte, the starting index, the entry
\* count of the header, then the colours of a number of entries that may
\* differ from the header's, one byte more or less, and one byte that may
\* differ.
PapyrusFiles ==
    {WithByte(SubSeq(<<first, start, count>> \o Repeat(fill, 3 * entries + 1),
                     1, 3 + 3 * entries + extra),
              at, value) :
        first \in {0, 1}, start \in {0, 1, 200, 255},
        count \in {0, 1, 2, 56, 57}, entries \in {0, 1, 2, 56, 57, 256},
        extra \in {-1, 0, 1}, fill \in {0, 64},
        at \in {3, 5}, value \in {64, 65}}

InitPalette ==
    \E handler \in PaletteHandlers :
        /\ params = [handler |-> handler]
        /\ content \in IF handler = "pal-vga-6bit-papyrus" THEN PapyrusFiles
                        ELSE PaletteFiles

InitGif ==
    \E handler \in GifHandlers, ownMagic \in BOOLEAN, packedField \in {0, 128} :
    \E blocks \in IF ownMagic THEN GifBlockLists(MaxBlocks) ELSE {<<>>, <<"image">>} :
        LET header == GifHeader(IF ownMagic THEN getMagicWord(handler)
                                ELSE GifOtherMagic(handler), packedField)
            whole == header \o GifBody(blocks)
        IN  \E length \in 0..Len(whole) :
                /\ params = [handler |-> handler, ownMagic |-> ownMagic,
                             headerLength |-> Len(header), blocks |-> blocks]
                /\ content = SubSeq(whole, 1, length)

InitDDave ==
    \E handler \in DDaveHandlers,
       count \in 0..MaxFatEntries \cup {FIRST_TILE_WITH_DIMS + 1},
       fill \in {0, 1} :
        \E table \in DDaveTables(handler, count),
           dataLength \in DDaveDataLengths(handler) :
            /\ params = [handler |-> handler, count |-> count, table |-> table]
            /\ content = DDaveFile(count, table, dataLength, fill)

InitIdentify ==
    /\ InitGif \/ InitDDave \/ InitPalette \/
       (\E handler \in DDaveHandlers, short \in {<<>>, <<1>>, <<1, 0, 0>>} :
            /\ params = [handler |-> handler, count |-> 0, table |-> <<>>]
            /\ content = short)
    /\ image = NoResult
    /\ result = NoResult
    /\ pc = "identify"

\* identify(content) of a GIF handler.
IdentifyGif ==
    /\ pc = "identify"
    /\ params.handler \in GifHandlers
    /\ result' = Gif_identify(content, params.handler)
    /\ pc' = "done"
    /\ UNCHANGED <<params, image, content>>

\* identify(content) of a Dangerous Dave handler.
IdentifyDDave ==
    /\ pc = "identify"
    /\ params.handler \in DDaveHandlers
    /\ result' = DDave_identify(content, params.handler)
    /\ pc' = "read"
    /\ UNCHANGED <<params, image, content>>

\* read({main: content}) of a Dangerous Dave handler.
ReadDDave ==
    /\ pc = "read"
    /\ params.handler \in DDaveHandlers
    /\ image' = DDave_read(content, params.handler)
    /\ pc' = "done"
    /\ UNCHANGED <<params, content, result>>

\* pal_vga_8bit.identify(content)
IdentifyPal8 ==
    /\ pc = "identify"
    /\ params.handler = "pal-vga-8bit"
    /\ result' = Pal8_identify(content)
    /\ pc' = "done"
    /\ UNCHANGED <<params, image, content>>

\* pal_vga_6bit.identify(content)
IdentifyPal6 ==
    /\ pc = "identify"
    /\ params.handler = "pal-vga-6bit"
    /\ result' = Pal6_identify(content)
    /\ pc' = "done"
    /\ UNCHANGED <<params, image, content>>

\* pal_vga_6bit_papyrus.identify(content)
IdentifyPapyrus ==
    /\ pc = "identify"
    /\ params.handler = "pal-vga-6bit-papyrus"
    /\ result' = Papyrus_identify(content)
    /\ pc' = "done"
    /\ UNCHANGED <<params, image, content>>

NextIdentify ==
    IdentifyGif \/ IdentifyDDave \/ ReadDDave \/ IdentifyPal8 \/ IdentifyPal6
        \/ IdentifyPapyrus

SpecIdentify == InitIdentify /\ [][NextIdentify]_vars

(***************************************************************************)
(* Captain Comic splash screen and raw planar 4bpp image: write            *)
(* (img-ccomic-splash.js, img-raw-planar-4bpp.js).                         *)
(***************************************************************************)

NUM_PLANES == 4

\* const lenPlane = 8000
CComicLenPlane == 8000

\* The planar data of the only frame, as write() asks toPlanar for it.
CComicSplashRaw(img) ==
    toPlanar([content |-> img.frames[1].pixels, planeCount |-> 4,
              planeWidth |-> 320 * 200, planeValues |-> <<1, 2, 4, 8>>,
              byteOrderMSB |-> TRUE])

\* raw.slice(p * lenPlane, (p + 1) * lenPlane)
CComicPlaneData(raw, p) == JsSlice(raw, p * CComicLenPlane, (p + 1) * CComicLenPlane)

\* Image_CComic_Splash.write(image): the plane length written to the header
\* and the blocks handed one by one to cmp_rle_ccomic.obscure, whose output
\* is put after the header.
CComicSplash_write(img) ==
    IF Len(img.frames) # 1 THEN Throw("Can only write one frame to this format.")
    ELSE LET raw == CComicSplashRaw(img)
         IN  IF raw.kind = "error" THEN raw
             ELSE [kind |-> "content", lenPlane |-> CComicLenPlane,
                   planes |-> [p \in 1..NUM_PLANES |-> CComicPlaneData(raw.bytes, p - 1)]]

\* Image_Raw_4bpp_Planar.write(image, {})
RawPlanar_write(img) ==
    IF Len(img.frames) # 1 THEN Throw("Can only write one frame to this format.")
    ELSE
        LET frame == img.frames[1]
            frameWidth == IF frame.width = Undefined THEN img.width ELSE frame.width
            frameHeight == IF frame.height = Undefined THEN img.height ELSE frame.height
        IN  IF frameWidth % 8 # 0
            THEN Throw("BUG: Image width must be a multiple of 8 (limits.multipleSize ignored).")
            ELSE LET raw == toPlanar([content |-> frame.pixels, planeCount |-> 4,
                                      planeWidth |-> frameWidth * frameHeight,
                                      planeValues |-> <<1, 2, 4, 8>>,
                                      byteOrderMSB |-> TRUE])
                 IN  IF raw.kind = "error" THEN raw
                     ELSE [kind |-> "content", main |-> raw.bytes]

(***************************************************************************)
(* Writing: a handler is given an image, checks it against its limits and  *)
(* writes it; the Roll handlers then read back what they wrote.            *)
(***************************************************************************)

\* Bound on the number of frames of the small images.
MaxFrames == 2

StpHandlers == {"img-stp-v1", "img-stp-v2"}
RolHandlers == {"img-rol-v1", "img-rol-v2"}
WriteHandlers ==
    StpHandlers \cup RolHandlers
        \cup {"tls-ddave-vga", "tls-ccomic-map", "img-ccomic-splash", "img-raw-planar-4bpp"}

\* The Stamp version a Stamp or Roll handler passes on.
VersionOf(handler) == IF handler \in {"img-stp-v1", "img-rol-v1"} THEN 1 ELSE 2

\* A 16x16 tile, and frames of other sizes: with transparent pixels, with a
\* hotspot, too wide or too high for a 16x16 format, with colours past 16,
\* and one that takes its size from the image.
Tile16 == NewFrame(16, 16, 0, 0, Repeat(3, 256))
FrameChoices ==
    {NewFrame(1, 1, 0, 0, <<7>>),
     NewFrame(2, 1, 0, 0, <<7, 255>>),
     NewFrame(3, 1, -3, 5, <<7, 7, 7>>),
     Tile16,
     NewFrame(17, 1, 0, 0, Repeat(20, 17)),
     NewFrame(1, 17, 0, 0, Repeat(1, 17)),
     NewFrame(Undefined, Undefined, 0, 0, <<16, 7>>)}

\* Images of up to n frames, and two long ones: full-size tiles followed by
\* a tile with its own size, and more frames than any format takes.
WriteImages(n) ==
    {Image(2, 1, 0, 0, frames, tags) :
        frames \in (UNION {[1..k -> FrameChoices] : k \in 0..n})
                   \cup {[i \in 1..FIRST_TILE_WITH_DIMS + 1 |->
                             IF i <= FIRST_TILE_WITH_DIMS THEN Tile16
                             ELSE NewFrame(2, 1, 0, 0, <<7, 255>>)],
                         [i \in 1..DDaveFrameCountMax + 1 |-> NewFrame(1, 1, 0, 0, <<7>>)]},
        tags \in {{}, {"title"}}}

InitWrite ==
    /\ \E handler \in WriteHandlers : params = [handler |-> handler]
    /\ image \in WriteImages(MaxFrames)
    /\ content = <<>>
    /\ result = NoResult
    /\ pc = "check"

\* handler.checkLimits(image)
CheckLimits ==
    /\ pc = "check"
    /\ params.handler \in WriteHandlers
    /\ result' = [kind |-> "issues",
                  issues |-> IF params.handler = "tls-ddave-vga"
                             THEN DDave_checkLimits(image, Limits(params.handler))
                             ELSE checkLimits(image, Limits(params.handler))]
    /\ pc' = IF params.handler = "tls-ccomic-map" THEN "checked" ELSE "write"
    /\ UNCHANGED <<params, image, content>>

\* img_stp_v1.write / img_stp_v2.write of any image.
WriteStp ==
    /\ pc = "write"
    /\ params.handler \in StpHandlers
    /\ result' = writeByVersion(image, VersionOf(params.handler))
    /\ content' = IF result'.kind = "content" THEN result'.main ELSE content
    /\ pc' = "written"
    /\ UNCHANGED <<params, image>>

\* img_rol_v1.write / img_rol_v2.write
WriteRol ==
    /\ pc = "write"
    /\ params.handler \in RolHandlers
    /\ result' = Rol_writeByVersion(image, VersionOf(params.handler))
    /\ content' = IF result'.kind = "content" THEN result'.main ELSE content
    /\ pc' = IF result'.kind = "content" THEN "read" ELSE "written"
    /\ UNCHANGED <<params, image>>

\* img_rol_v1.read / img_rol_v2.read of what was written.
ReadRol ==
    /\ pc = "read"
    /\ params.handler \in RolHandlers
    /\ result' = Rol_readByVersion(content, VersionOf(params.handler))
    /\ pc' = "done"
    /\ UNCHANGED <<params, image, content>>

\* tls_ddave_vga.write
WriteDDave ==
    /\ pc = "write"
    /\ params.handler = "tls-ddave-vga"
    /\ result' = DDave_write(image)
    /\ content' = result'.main
    /\ pc' = "written"
    /\ UNCHANGED <<params, image>>

\* Image_CComic_Splash.write
WriteSplash ==
    /\ pc = "write"
    /\ params.handler = "img-ccomic-splash"
    /\ result' = CComicSplash_write(image)
    /\ pc' = "written"
    /\ UNCHANGED <<params, image, content>>

\* Image_Raw_4bpp_Planar.write
WriteRawPlanar ==
    /\ pc = "write"
    /\ params.handler = "img-raw-planar-4bpp"
    /\ result' = RawPlanar_write(image)
    /\ content' = IF result'.kind = "content" THEN result'.main ELSE content
    /\ pc' = "written"
    /\ UNCHANGED <<params, image>>

NextWrite ==
    CheckLimits \/ WriteStp \/ WriteRol \/ ReadRol \/ WriteDDave \/ WriteSplash
        \/ WriteRawPlanar

SpecWrite == InitWrite /\ [][NextWrite]_vars

(***************************************************************************)
(* Bitplane codec: claims.                                                 *)
(***************************************************************************)

\* The bitwise OR of the values of a set of planes.
RECURSIVE OrOfPlanes(_, _)
OrOfPlanes(planes, planeValues) ==
    IF planes = {} THEN 0
    ELSE LET p == CHOOSE q \in planes : TRUE
         IN  BitOr(planeValues[p + 1], OrOfPlanes(planes \ {p}, planeValues))

\* Bit n of byte v is set.
BitSet(v, n) == (v \div Pow2(n)) % 2 = 1

\* fromPlanar has just converted the planar buffer `image` into `content`.
AfterFromPlanar ==
    params.handler = "planar" /\ pc = <<"toPlanar">> /\ result.kind = "bytes"

\* C3: for byte-planar data (planeWidth 8), pixel k of each group of 8 is
\* the OR of planeValues[p] over exactly the planes p whose byte of the
\* group has bit 7 - k set (bit k in LSB order); and the 4-plane input
\* FF 70 3F 18 with values 1, 2, 4, 8 in MSB order gives
\* 01 03 07 0F 0D 05 05 05.
C3_FromPlanarBits ==
    (AfterFromPlanar /\ params.planeWidth = 8) =>
        /\ Len(content) = 8 * (Len(image) \div params.planeCount)
        /\ \A g \in 0..((Len(image) \div params.planeCount) - 1), k \in 0..7 :
              content[8 * g + k + 1] =
                  OrOfPlanes({p \in 0..(params.planeCount - 1) :
                                 BitSet(image[g * params.planeCount + p + 1],
                                        IF params.byteOrderMSB THEN 7 - k ELSE k)},
                             params.planeValues)
        /\ (image = <<255, 112, 63, 24>> /\ params.planeValues = <<1, 2, 4, 8>>
              /\ params.byteOrderMSB) => content = <<1, 3, 7, 15, 13, 5, 5, 5>>

\* The 4-plane example has been decoded.
C3_Witness ==
    /\ AfterFromPlanar /\ params.planeWidth = 8 /\ params.byteOrderMSB
    /\ image = <<255, 112, 63, 24>> /\ params.planeValues = <<1, 2, 4, 8>>
    /\ content = <<1, 3, 7, 15, 13, 5, 5, 5>>

\* Both conversions have been applied, planar buffer first.
PlanarRoundTripDone ==
    /\ params.handler = "planar" /\ params.first = "fromPlanar"
    /\ pc = <<>> /\ result.kind = "bytes"

\* Both conversions have been applied, linear buffer first.
LinearRoundTripDone ==
    /\ params.handler = "planar" /\ params.first = "toPlanar"
    /\ pc = <<>> /\ result.kind = "bytes"

\* The bits the planes can carry.
PlaneMask == OrOfPlanes(0..(params.planeCount - 1), params.planeValues)

InvalidPlaneWidth == Throw("fromPlanar() planeWidth too small!")

\* The first conversion has been applied to the non-empty buffer `image`
\* with a plane width whose byte width is 0 or less.
BadPlaneWidthTried ==
    /\ params.handler = "planar" /\ Len(pc) < 2 /\ Len(image) > 0
    /\ PlanarWidthBytes(params.planeWidth) <= 0

\* C11: fromPlanar and toPlanar both fail with the invalid-plane-width
\* error when Math.ceil(planeWidth / 8) <= 0 and the input is not empty.
C11_InvalidPlaneWidth == BadPlaneWidthTried => result = InvalidPlaneWidth

(***************************************************************************)
(* Delta: claims.                                                          *)
(***************************************************************************)

DelWritten == params.handler = "del" /\ pc = "done" /\ image.kind = "image"

\* C2: reading what write produced for a single-frame image returns an image
\* of the same width and height with exactly the same pixels.
C2_DelRoundTrip ==
    DelWritten =>
        /\ result.kind = "image"
        /\ FrameWidthOf(result) = FrameWidthOf(image)
        /\ FrameHeightOf(result) = FrameHeightOf(image)
        /\ result.frames[1].pixels = image.frames[1].pixels

(***************************************************************************)
(* Stamp: claims.                                                          *)
(***************************************************************************)

StpExtraneous == "Extraneous input data; frame is complete with input data remaining."
StpTruncated == "Ran out of input data before full frame size was constructed."

StpWritten == params.handler = "stp" /\ pc = "done" /\ image.kind = "image"
StpRawRead == params.handler = "stp" /\ pc = "done" /\ image.kind = "none"

\* The decoder state at the end of the decode loop, and the encoded stream.
StpFinal == StpReadLoop(StpReadStart(content, params.stpVersion), content)
StpStream == SubSeq(content, StpHeaderSize(params.stpVersion) + 1, Len(content))

\* C1: reading what write produced for a single-frame image returns an image
\* of the same width and height with exactly the same pixels, for both
\* versions and with transparent (255) pixels among them.
C1_StpRoundTrip ==
    StpWritten =>
        /\ result.kind = "image"
        /\ FrameWidthOf(result) = FrameWidthOf(image)
        /\ FrameHeightOf(result) = FrameHeightOf(image)
        /\ result.frames[1].pixels = image.frames[1].pixels

\* A round trip of more than 127 transparent pixels followed by other pixels.
C1_Witness ==
    /\ StpWritten
    /\ result.kind = "image"
    /\ Len(image.frames[1].pixels) > 128
    /\ SubSeq(image.frames[1].pixels, 1, 128) = Repeat(255, 128)
    /\ \E i \in DOMAIN image.frames[1].pixels : image.frames[1].pixels[i] # 255

\* C7: when the decode loop has used up the input and fewer than
\* width * height pixels were produced, read throws the ran-out-of-input
\* error and returns no image.
C7_StpTruncated ==
    (StpRawRead /\ Len(content) >= StpHeaderSize(params.stpVersion)
                /\ Len(StpFinal.out) < StpFinal.outLen) =>
        /\ StpFinal.inputPos >= Len(content)
        /\ result = Throw(StpTruncated)

\* A stream whose last run was cut short by the end of the input.
C7_Witness ==
    /\ StpRawRead
    /\ Len(StpStream) > 1
    /\ Len(StpFinal.out) > 0
    /\ Len(StpFinal.out) < StpFinal.outLen
    /\ result = Throw(StpTruncated)

\* C8: when encoded data is left once width * height pixels were produced
\* (input bytes not read, or a run with pixels still to emit), read throws
\* the extraneous-input error and returns no image.
C8_StpExtraneous ==
    (StpRawRead /\ Len(content) >= StpHeaderSize(params.stpVersion)
                /\ Len(StpFinal.out) = StpFinal.outLen
                /\ (StpFinal.inputPos < Len(content) \/ StpFinal.count > 0)) =>
        result = Throw(StpExtraneous)

\* C9: the stream made of the single control byte 0xFF decodes to 127
\* transparent pixels, and read reports extraneous input when the declared
\* width * height is less than 127.
C9_StpLoneTransparencyRun ==
    (StpRawRead /\ StpStream = <<255>>) =>
        /\ StpFinal.outLen = 127 =>
               /\ result.kind = "image"
               /\ result.frames[1].pixels = Repeat(StpTransparentIndex, 127)
        /\ StpFinal.outLen < 127 => result = Throw(StpExtraneous)

(***************************************************************************)
(* Tile compositor: claims.                                                *)
(***************************************************************************)

\* A tileset has been composed and the frame split again.
TilesRoundTripDone ==
    params.handler = "tiles" /\ pc = "done" /\ image.kind = "image"

\* A frame has been split, whether composed here or given.
TilesDecomposed ==
    params.handler = "tiles" /\ pc = "done" /\ content.kind = "frame"

\* C6: composing N tiles of any sizes, with any number of tiles per row,
\* and splitting the frame at the same sizes returns N tiles with the
\* sizes and pixels of the originals, in order.
C6_TilesRoundTrip ==
    TilesRoundTripDone =>
        /\ result.kind = "tiles"
        /\ Len(result.tiles) = Len(image.frames)
        /\ \A f \in 1..Len(image.frames) :
              /\ result.tiles[f].width = image.frames[f].width
              /\ result.tiles[f].height = image.frames[f].height
              /\ Elements(result.tiles[f].pixels) = Elements(image.frames[f].pixels)

\* The row slices tilesetFromFrame takes for tiles f.. : for each tile and
\* row, the offset into the frame's pixels and the width.
RECURSIVE TileSlices(_, _, _, _)
TileSlices(st, srcFrameWidth, tileDims, f) ==
    IF f >= Len(tileDims) THEN {}
    ELSE
        LET dim == tileDims[f + 1]
            pos == TileOrigin(st, dim.width, srcFrameWidth)
        IN  {[tile |-> f, row |-> y,
              offSrc |-> (pos.ty + y) * srcFrameWidth + pos.tx,
              width |-> dim.width] : y \in 0..(dim.height - 1)}
            \cup TileSlices([tx |-> pos.tx + dim.width, ty |-> pos.ty,
                             yMax |-> Max(pos.yMax, dim.height)],
                            srcFrameWidth, tileDims, f + 1)

\* The row slices requested of the current frame.
RequestedSlices ==
    TileSlices([tx |-> 0, ty |-> 0, yMax |-> 0], content.width, params.tileDims, 0)

\* C10: splitting a frame fails with the tile-overrun error exactly when
\* some requested row slice ends past the end of the frame's pixels.
C10_TileOverrun ==
    TilesDecomposed =>
        ((\E s \in RequestedSlices : result = TileOverrun(s.tile, s.row))
            <=> (\E s \in RequestedSlices : s.offSrc + s.width > content.pixels.length))

(***************************************************************************)
(* Identification: claims.                                                 *)
(***************************************************************************)

\* identify() has returned.
IdentifyDone ==
    /\ params.handler \in GifHandlers \cup DDaveHandlers \cup PaletteHandlers
    /\ pc # "identify"

WriteDone == params.handler \in WriteHandlers /\ pc \in {"written", "read"}

\* The image has fewer or more frames than the handler's metadata allows.
FrameCountOutOfBounds ==
    LET limits == Limits(params.handler)
    IN  \/ Len(image.frames) < limits.frameCountMin
        \/ limits.frameCountMax # Undefined /\ Len(image.frames) > limits.frameCountMax

\* C13: write(image) throws, and gives no bytes, whenever the image has
\* fewer frames than the handler's frameCount.min or more than its
\* frameCount.max.
C13_WriteFrameCount ==
    (WriteDone /\ FrameCountOutOfBounds) => (result.kind = "error" /\ content = <<>>)

\* checkLimits() has returned its list.
LimitsChecked == params.handler \in WriteHandlers /\ result.kind = "issues"

\* The limits of the handler the image violates: the frame count, for each
\* frame its width, its height and its colours (a pixel that is the
\* format's transparent index is within the limits), for each tag the
\* format cannot write the tag, and for the Dangerous Dave tileset each of
\* the first 53 frames that is not 16x16.
FrameSizeOf(f) ==
    [width |-> IF image.frames[f].width = Undefined THEN image.width
               ELSE image.frames[f].width,
     height |-> IF image.frames[f].height = Undefined THEN image.height
                ELSE image.frames[f].height]
LimitsViolated ==
    LET limits == Limits(params.handler)
        n == Len(image.frames)
    IN  {Issue("too many frames", Undefined) :
            x \in {k \in {1} : limits.frameCountMax # Undefined /\ n > limits.frameCountMax}}
        \cup {Issue("too few frames", Undefined) :
                 x \in {k \in {1} : n < limits.frameCountMin}}
        \cup {Issue("width", f - 1) :
                 f \in {k \in 1..n : /\ limits.maximumSizeX # Undefined
                                      /\ FrameSizeOf(k).width > limits.maximumSizeX}}
        \cup {Issue("height", f - 1) :
                 f \in {k \in 1..n : /\ limits.maximumSizeY # Undefined
                                      /\ FrameSizeOf(k).height > limits.maximumSizeY}}
        \cup {Issue("colour", f - 1) :
                 f \in {k \in 1..n :
                           \E i \in 1..Len(image.frames[k].pixels) :
                               /\ image.frames[k].pixels[i] >= Pow2(limits.depth)
                               /\ image.frames[k].pixels[i] # limits.transparentIndex}}
        \cup {Issue(t, Undefined) : t \in image.tags \ limits.tags}
        \cup {Issue("not 16x16", f - 1) :
                 f \in {k \in 1..n : /\ params.handler = "tls-ddave-vga"
                                      /\ k <= 53
                                      /\ \/ image.frames[k].width # 16
                                         \/ image.frames[k].height # 16}}

RolWritten == params.handler \in RolHandlers /\ pc = "read"

\* The byte offset at which the Stamp file of frame i (counted from 0)
\* begins in a Roll file of these frames: after the table and the Stamp
\* files of the frames before it.
RolStart(i) ==
    4 * Len(image.frames)
    + Len(RolStpData(image, VersionOf(params.handler), i))

\* C16: the Roll file written for N >= 1 frames is a table of N 32-bit
\* little-endian offsets followed by the N Stamp files in frame order, and
\* entry i of the table is the offset at which Stamp file i begins.
C16_RolOffsetTable ==
    RolWritten =>
        /\ Len(content) = RolStart(Len(image.frames))
        /\ \A i \in 0..Len(image.frames) - 1 :
               /\ ReadU32le(content, 4 * i) = RolStart(i)
               /\ SubSeq(content, RolStart(i) + 1, RolStart(i + 1))
                      = RolStpFile(image, VersionOf(params.handler), i)

(***************************************************************************)
(* Dangerous Dave tileset: claims.                                         *)
(***************************************************************************)

\* read() has returned or thrown.
DDaveReadDone == params.handler \in DDaveHandlers /\ pc = "done"

\* C15: read() of a Dangerous Dave tileset does not return an image with
\* fewer tiles than the count in the header: when the file ends before the
\* data of a declared tile, read() throws.
C15_NoSilentTruncation ==
    (DDaveReadDone /\ image.kind = "image") =>
        Len(image.frames) = ReadU32le(content, 0)

(***************************************************************************)
(* Stamp identification: claims.                                           *)
(***************************************************************************)

\* identify() has returned for the bytes write() produced.
StpSelfIdentified == params.handler = "stp" /\ pc = "read" /\ image.kind = "image"

\* C17: identify() of the same version never returns valid = false for the
\* bytes write() produced for a single-frame image, whatever its width,
\* height and pixels.
C17_StpSelfIdentify ==
    StpSelfIdentified => (result.kind = "identify" /\ result.valid # "false")

(***************************************************************************)
(* Palette identification: claims.                                         *)
(***************************************************************************)

PaletteIdentified(handler) == params.handler = handler /\ pc = "done"

\* C18: the 8-bit VGA palette handler identifies a file as valid exactly
\* when it is 768 bytes long, its first three bytes are zero and some byte
\* is above 64; a file of any other length is not valid and the reason
\* cites the length.
C18_Pal8Identify ==
    PaletteIdentified("pal-vga-8bit") =>
        /\ result.valid = "true" <=>
               /\ Len(content) = 768
               /\ SubSeq(content, 1, 3) = <<0, 0, 0>>
               /\ \E i \in 1..Len(content) : content[i] > 64
        /\ result.valid \in {"true", "false"}
        /\ Len(content) # 768 =>
               (result.valid = "false" /\ result.reason = "File length is not 768.")

\* A valid 8-bit palette, and a file of 767 bytes that starts the same way
\* and has a byte above 64.
C18_Witness ==
    /\ PaletteIdentified("pal-vga-8bit")
    /\ Len(content) = 768
    /\ result.valid = "true"
C18_WitnessTruncated ==
    /\ PaletteIdentified("pal-vga-8bit")
    /\ Len(content) = 767
    /\ SubSeq(content, 1, 3) = <<0, 0, 0>>
    /\ \E i \in 1..Len(content) : content[i] > 64
    /\ result.valid = "false"

\* The entry count of a Papyrus header: 0 stands for 256.
PapyrusEntries == IF content[3] = 0 THEN 256 ELSE content[3]

\* C19: the 6-bit handlers identify no file with a colour byte above 64 as
\* valid; the Papyrus handler identifies a file as valid exactly when its
\* first byte is zero, its length is 3 * n + 3 for the entry count n of
\* its header, starting index + n <= 256 and every colour byte is <= 64.
C19_Pal6Identify ==
    /\ PaletteIdentified("pal-vga-6bit") =>
           /\ result.valid \in {"true", "false"}
           /\ (\E i \in 1..Len(content) : content[i] > 64) => result.valid = "false"
    /\ PaletteIdentified("pal-vga-6bit-papyrus") =>
           /\ result.valid \in {"true", "false"}
           /\ (\E i \in 4..Len(content) : content[i] > 64) => result.valid = "false"
           /\ result.valid = "true" <=>
                  /\ Len(content) >= 3
                  /\ content[1] = 0
                  /\ Len(content) = 3 * PapyrusEntries + 3
                  /\ content[2] + PapyrusEntries <= 256
                  /\ \A i \in 4..Len(content) : content[i] <= 64

\* A Papyrus palette of 56 entries from index 200 on with a colour byte of
\* 64 is valid; a 6-bit palette with a byte of 65 is not.
C19_Witness ==
    /\ PaletteIdentified("pal-vga-6bit-papyrus")
    /\ Len(content) = 171
    /\ content[2] = 200
    /\ \E i \in 4..Len(content) : content[i] = 64
    /\ result.valid = "true"
C19_WitnessAbove64 ==
    /\ PaletteIdentified("pal-vga-6bit")
    /\ Len(content) = 768
    /\ SubSeq(content, 1, 3) = <<0, 0, 0>>
    /\ \E i \in 1..Len(content) : content[i] = 65
    /\ result.valid = "false"

(***************************************************************************)
(* GIF identification as version 87a: claims.                              *)
(***************************************************************************)

\* Where block k of the generated file begins, from 0.
GifBlockOffset(k) == params.headerLength + Len(GifBody(SubSeq(params.blocks, 1, k - 1)))

\* Block k of the file is an extension block that lies in the data stream
\* (no trailer ends the stream before it) and whose introducer is in the
\* content.
GifExtensionAt(k) ==
    /\ k \in 1..Len(params.blocks)
    /\ params.blocks[k] \in GifExtensionKinds
    /\ \A j \in 1..k - 1 : params.blocks[j] # "trailer"
    /\ Len(content) > GifBlockOffset(k)

GifIdentified(handler) ==
    params.handler = handler /\ params.ownMagic /\ pc = "done"

\* C20: identification as GIF 87a returns valid = false for every file
\* whose block sequence holds an extension block (introducer 0x21),
\* whatever the type of the extension and whatever follows it.
C20_Gif87aRejectsExtensions ==
    (GifIdentified("img-gif-87a") /\ \E k \in 1..Len(params.blocks) : GifExtensionAt(k))
        => (result.kind = "identify" /\ result.valid = "false")

\* An 87a file of an extension block followed by a complete image block is
\* rejected for the extension.
C20_Witness ==
    /\ GifIdentified("img-gif-87a")
    /\ Len(params.blocks) = 2
    /\ params.blocks[1] \in GifExtensionKinds
    /\ params.blocks[2] = "image"
    /\ Len(content) = GifBlockOffset(3)
    /\ result = Identified("false", "File contains an extension, which is not supported.")

(***************************************************************************)
(* 6-bit VGA palette: write and read (formats/pal-vga-6bit.js).            *)
(***************************************************************************)

\* Math.min(a, b)
Min(a, b) == IF a <= b THEN a ELSE b

\* (n << 2) | (n >> 4)
pal6_to_8(n) == BitOr(Shl(n, 2), Shr(n, 4))

\* n >> 2, and a variant that rounds to nearest.
pal8_to_6Rounded(n) == Shr(n + 2, 2)
pal8_to_6(n) == Shr(n, 2)

\* An image that holds only a palette: 256 entries of red, green, blue and
\* alpha.
PaletteImage(entries) == [kind |-> "palette", present |-> TRUE, entries |-> entries]
NoPaletteImage == [kind |-> "palette", present |-> FALSE, entries |-> <<>>]

\* Palette_VGA_6bit.read({main: bytes})
Pal6_read(bytes) ==
    PaletteImage([i \in 1..256 |->
        [j \in 1..4 |->
            IF j = 4 THEN 255
            ELSE LET c == Min(OrElse(At(bytes, (i - 1) * 3 + (j - 1)), 0), 63)
                 IN  pal6_to_8(c)]])

\* Palette_VGA_6bit.write(image, options)
Pal6_write(img, ignoreAlpha) ==
    IF ~img.present
    THEN Throw("Cannot write a palette file if the image has no palette!")
    ELSE IF ~ignoreAlpha /\ \E i \in 1..256 : img.entries[i][4] # 255
    THEN Throw("Palette entry has an alpha value, but only a value of 255 is possible in this palette format.")
    ELSE [kind |-> "content",
          bytes |-> [p \in 1..PaletteFileLength |->
                        pal8_to_6(img.entries[((p - 1) \div 3) + 1][((p - 1) % 3) + 1])]]

\* Component values of the palettes to write: 8-bit values that are and
\* that are not the expansion of a 6-bit value.
PaletteComponents == {0, 1, 4, 60, 63, 64, 85, 130, 251, 252, 255}

\* Palettes of one colour throughout, with one entry that may differ.
Palettes ==
    {PaletteImage([i \in 1..256 |->
                      IF i = at THEN <<special, fill, fill, alpha>>
                      ELSE <<fill, fill, fill, 255>>]) :
        fill \in PaletteComponents, special \in PaletteComponents,
        at \in {1, 256}, alpha \in {255, 0}}

InitPal6 ==
    /\ \E ignoreAlpha \in BOOLEAN :
           params = [handler |-> "pal-vga-6bit", ignoreAlpha |-> ignoreAlpha]
    /\ image \in Palettes \cup {NoPaletteImage}
    /\ content = <<>>
    /\ result = NoResult
    /\ pc = "write"

\* Palette_VGA_6bit.write(image, options)
Pal6Write ==
    /\ pc = "write"
    /\ LET written == Pal6_write(image, params.ignoreAlpha)
       IN  IF written.kind = "error"
           THEN /\ result' = written
                /\ pc' = "failed"
                /\ UNCHANGED content
           ELSE /\ content' = written.bytes
                /\ pc' = "read"
                /\ UNCHANGED result
    /\ UNCHANGED <<params, image>>

\* Palette_VGA_6bit.read({main: content})
Pal6Read ==
    /\ pc = "read"
    /\ result' = Pal6_read(content)
    /\ pc' = "done"
    /\ UNCHANGED <<params, image, content>>

NextPal6 == Pal6Write \/ Pal6Read
SpecPal6 == InitPal6 /\ [][NextPal6]_vars

(***************************************************************************)
(* 6-bit VGA palette: claims.                                              *)
(***************************************************************************)

\* The colour components of the palette to write.
PaletteColours == {image.entries[i][j] : i \in 1..256, j \in 1..3}

\* The 8-bit values that stand for a 6-bit value x in 0..63.
SixBitValues == {4 * x + x \div 16 : x \in 0..63}

Pal6RoundTripDone == pc = "done" /\ PaletteColours \subseteq SixBitValues

IssuesOf(handler, img) ==
    IF handler = "tls-ddave-vga" THEN DDave_checkLimits(img, Limits(handler))
    ELSE checkLimits(img, Limits(handler))

\* write() of the splash screen handler has returned content for an image
\* its checkLimits() has nothing against.
SplashWritten ==
    /\ params.handler = "img-ccomic-splash"
    /\ pc = "written"
    /\ result.kind = "content"
    /\ IssuesOf(params.handler, image) = <<>>

\* C22: on write every one of the 4 bitplanes goes to the compressor on its
\* own as a block of exactly 8000 bytes.
C22_SplashPlanes ==
    SplashWritten =>
        /\ Len(result.planes) = 4
        /\ \A p \in 1..4 : Len(result.planes[p]) = 8000
        /\ result.lenPlane = 8000

(***************************************************************************)
(* checkLimits and write: claims.                                          *)
(***************************************************************************)

\* write() has returned or thrown.
WriteReturned ==
    /\ params.handler \in WriteHandlers
    /\ pc \in {"written", "read"}

\* C30: when checkLimits(image) returns an empty list, write(image) of the
\* same handler raises no error.
C30_CheckLimitsSufficient ==
    (WriteReturned /\ IssuesOf(params.handler, image) = <<>>) => result.kind # "error"

(***************************************************************************)
(* Compose background: claims.                                             *)
(***************************************************************************)

\* frameFromTileset has returned the composed frame, now in content.
TilesComposed ==
    params.handler = "tiles" /\ pc = "decompose" /\ image.kind = "image"

\* Where frameFromTileset put the tiles.
TilePieces ==
    TilePlacement(image, params.width, 0,
                  [frameList |-> <<>>, x |-> 0, y |-> 0, yMax |-> 0])

\* The canvas pixels (x, y) no tile covers.
UncoveredPixels ==
    {xy \in (0..content.width - 1) \X (0..content.height - 1) :
        \A k \in 1..Len(TilePieces) :
            LET c == TilePieces[k]
            IN  ~(/\ xy[1] >= c.offsetX /\ xy[1] < c.offsetX + c.frame.width
                  /\ xy[2] >= c.offsetY /\ xy[2] < c.offsetY + c.frame.height)}

\* The first palette entry whose alpha is 0, or 0 when there is none or no
\* palette.
FirstTransparent(palette) ==
    IF palette.present /\ \E i \in 1..Len(palette.alpha) : palette.alpha[i] = 0
    THEN (CHOOSE i \in 1..Len(palette.alpha) :
              palette.alpha[i] = 0 /\ \A j \in 1..i - 1 : palette.alpha[j] # 0) - 1
    ELSE 0

\* The colour of canvas pixel (x, y) of the composed frame.
CanvasPixel(xy) == Elements(content.pixels)[xy[2] * content.width + xy[1] + 1]

\* C23: every canvas pixel no composed frame covers has the background
\* colour that was supplied; when none was supplied it has the index of the
\* first palette entry whose alpha is 0, or index 0 when there is none.
C23_ComposeBackground ==
    TilesComposed =>
        \A xy \in UncoveredPixels :
            CanvasPixel(xy) = IF params.bg # Undefined THEN params.bg
                              ELSE FirstTransparent(image.frames[1].palette)

\* The same with no background colour supplied.
ComposeBackgroundDefault ==
    (TilesComposed /\ params.bg = Undefined) =>
        \A xy \in UncoveredPixels : CanvasPixel(xy) = FirstTransparent(image.frames[1].palette)

(***************************************************************************)
(* Tile decomposition and the source buffer: claims.                       *)
(***************************************************************************)

FrameClone(frame) ==
    Frame(frame.width, frame.height, NewArray(Elements(frame.pixels)), frame.palette)

\* The callbacks handed to frameFromMask: that of the test (0xFF where the
\* mask is 0xFF, else the visible pixel) and one that keeps the mask in the
\* top bit of the pixel.
fnFromMask(cb, v, m) ==
    IF cb = "transparent" THEN (IF m = 255 THEN 255 ELSE v)
    ELSE BitOr(BitAnd(v, 127), IF m = Undefined \/ m = 0 THEN 0 ELSE 128)

\* The callbacks handed to maskFromFrame: each returns [visible, mask].
fnToMask(cb, p) ==
    IF cb = "transparent"
    THEN <<IF p = 255 THEN 0 ELSE p, IF p = 255 THEN 255 ELSE 0>>
    ELSE <<BitAnd(p, 127), IF BitAnd(p, 128) = 0 THEN 0 ELSE 255>>

\* frMask.pixels[p], and the pixel after it.
MaskPixelShifted(frMask, p) == At(Elements(frMask.pixels), p + 1)
MaskPixel(frMask, p) == At(Elements(frMask.pixels), p)

\* The loop of frameFromMask from pixel p on.
RECURSIVE FrameFromMaskLoop(_, _, _, _)
FrameFromMaskLoop(frOut, frMask, cb, p) ==
    IF p >= frOut.pixels.length THEN frOut
    ELSE FrameFromMaskLoop(
             [frOut EXCEPT !.pixels =
                 StoreAt(@, p, ToByte(fnFromMask(cb, At(Elements(@), p),
                                                 MaskPixel(frMask, p))))],
             frMask, cb, p + 1)

\* frameFromMask({frVisible, frMask, cb})
frameFromMask(frVisible, frMask, cb) ==
    FrameFromMaskLoop(FrameClone(frVisible), frMask, cb, 0)

\* The loop of maskFromFrame from pixel p on.
RECURSIVE MaskFromFrameLoop(_, _, _, _)
MaskFromFrameLoop(out, frame, cb, p) ==
    IF p >= out.frVisible.pixels.length THEN out
    ELSE LET vm == fnToMask(cb, At(Elements(frame.pixels), p))
         IN  MaskFromFrameLoop(
                 [out EXCEPT !.frVisible.pixels = StoreAt(@, p, ToByte(vm[1])),
                             !.frMask.pixels = StoreAt(@, p, ToByte(vm[2]))],
                 frame, cb, p + 1)

\* maskFromFrame({frame, cb})
maskFromFrame(frame, cb) ==
    MaskFromFrameLoop([kind |-> "masks", frVisible |-> FrameClone(frame),
                       frMask |-> FrameClone(frame)], frame, cb, 0)

(***************************************************************************)
(* Mask merge and split: the calls.                                        *)
(***************************************************************************)

\* Number of pixels of the frames merged and split.
MaxMaskPixels == 3

MaskCallbacks == {"transparent", "topbit"}
VisiblePixels == {0, 16, 130, 255}
MaskPixels == {0, 1, 255}

\* The frames of every shape over the pixel buffers of up to n pixels.
MaskFrames(values, n) ==
    {Frame(shape[1], shape[2], NewArray(pixels), NoPalette) :
        shape \in {s \in (0..n) \X (0..n) : s[1] * s[2] <= n},
        pixels \in ByteStreams(values, n)}

InitMask ==
    /\ \E cb \in MaskCallbacks : params = [handler |-> "mask", cb |-> cb]
    /\ content = <<>>
    /\ result = NoResult
    /\ \/ /\ pc = "merge"
          /\ \E frVisible \in MaskFrames(VisiblePixels, MaxMaskPixels),
                frMask \in MaskFrames(MaskPixels, MaxMaskPixels) :
                 /\ frVisible.pixels.length = JsLength(JsMul(frVisible.width, frVisible.height))
                 /\ frMask.pixels.length = JsLength(JsMul(frMask.width, frMask.height))
                 /\ frMask.pixels.length \in {frVisible.pixels.length,
                                              frVisible.pixels.length - 1}
                 /\ image = [kind |-> "masked", frVisible |-> frVisible, frMask |-> frMask]
       \/ /\ pc = "split"
          /\ \E frame \in MaskFrames(VisiblePixels, MaxMaskPixels) :
                 /\ frame.pixels.length = JsLength(JsMul(frame.width, frame.height))
                 /\ image = [kind |-> "combined", frame |-> frame]

\* frameFromMask({frVisible, frMask, cb})
FrameFromMask ==
    /\ pc = "merge"
    /\ result' = frameFromMask(image.frVisible, image.frMask, params.cb)
    /\ pc' = "merged"
    /\ UNCHANGED <<params, image, content>>

\* maskFromFrame({frame, cb})
MaskFromFrame ==
    /\ pc = "split"
    /\ result' = maskFromFrame(image.frame, params.cb)
    /\ pc' = "masks"
    /\ UNCHANGED <<params, image, content>>

NextMask == FrameFromMask \/ MaskFromFrame
SpecMask == InitMask /\ [][NextMask]_vars

(***************************************************************************)
(* Mask merge and split: claims.                                           *)
(***************************************************************************)

\* frameFromMask has returned for two frames with as many pixels each.
MergedEqualLengths ==
    /\ pc = "merged"
    /\ image.frVisible.pixels.length = image.frMask.pixels.length

\* C25: for a visible and a mask frame of equal pixel count, frameFromMask
\* returns a frame of the visible frame's dimensions whose pixel i is
\* cb(visible[i], mask[i]); maskFromFrame returns two frames of the input's
\* dimensions whose pixels i are the two values cb returns for input pixel i.
C25_MaskElementWise ==
    /\ MergedEqualLengths =>
           /\ result.width = image.frVisible.width
           /\ result.height = image.frVisible.height
           /\ result.pixels.length = image.frVisible.pixels.length
           /\ \A i \in 1..result.pixels.length :
                  Elements(result.pixels)[i] =
                      fnFromMask(params.cb, Elements(image.frVisible.pixels)[i],
                                 Elements(image.frMask.pixels)[i])
    /\ pc = "masks" =>
           /\ \A out \in {result.frVisible, result.frMask} :
                  /\ out.width = image.frame.width
                  /\ out.height = image.frame.height
                  /\ out.pixels.length = image.frame.pixels.length
           /\ \A i \in 1..image.frame.pixels.length :
                  <<Elements(result.frVisible.pixels)[i],
                    Elements(result.frMask.pixels)[i]>> =
                      fnToMask(params.cb, Elements(image.frame.pixels)[i])

\* The merge of the test: visible 16, 0, 130 under mask 0, 255, 0 gives
\* 16, 255, 130.
C25_Witness ==
    /\ MergedEqualLengths
    /\ params.cb = "transparent"
    /\ Elements(image.frVisible.pixels) = <<16, 0, 130>>
    /\ Elements(image.frMask.pixels) = <<0, 255, 0>>
    /\ Elements(result.pixels) = <<16, 255, 130>>

\* The split of the test: 16, 255, 130 gives visible 16, 0, 130 and mask
\* 0, 255, 0.
C25_WitnessSplit ==
    /\ pc = "masks"
    /\ params.cb = "transparent"
    /\ Elements(image.frame.pixels) = <<16, 255, 130>>
    /\ Elements(result.frVisible.pixels) = <<16, 0, 130>>
    /\ Elements(result.frMask.pixels) = <<0, 255, 0>>

(***************************************************************************)
(* Stamp decoder, iteration by iteration: claims.                          *)
(***************************************************************************)

\* The decoder state after n iterations of the decode loop of the file read.
StpTrace(n) == StpReadIterate(StpReadStart(content, params.stpVersion), content, n)

\* The decoder is looking for a control byte.
StpSeeking(st) == ~st.directCopySeq /\ ~st.repeatSeq /\ ~st.transparencySeq

\* The byte the decoder is at after n iterations.
StpByteAt(n) == At(content, StpTrace(n).inputPos)

\* N + 1 iterations after the n-th, where a control byte of value N was
\* read, the decoder has copied the N bytes that follow it and looks for a
\* control byte again.
StpCopiedAfter(n, N) ==
    LET st == StpTrace(n)
        after == StpTrace(n + 1 + N)
    IN  /\ after.out = st.out \o SubSeq(content, st.inputPos + 2, st.inputPos + 1 + N)
        /\ after.inputPos = st.inputPos + 1 + N
        /\ StpSeeking(after)

\* The iterations in which the decoder reads a control byte of a value in
\* counts that is followed by as many bytes and one more, with room in the
\* output for all of them.
StpDirectCopies(counts) ==
    {n \in 0..(2 * Len(StpStream)) :
        /\ StpReadMore(StpTrace(n), content)
        /\ StpSeeking(StpTrace(n))
        /\ StpByteAt(n) \in counts
        /\ StpTrace(n).inputPos + StpByteAt(n) + 1 < Len(content)
        /\ Len(StpTrace(n).out) + StpByteAt(n) < StpTrace(n).outLen}

StpFileRead ==
    StpRawRead /\ Len(content) >= StpHeaderSize(params.stpVersion)

\* C27: a control byte of value N in 0..63 makes the decoder copy exactly the
\* N input bytes that follow it to the output, after which the next input
\* byte is read as a control byte.
C27_StpDirectCopy ==
    StpFileRead => \A n \in StpDirectCopies(0..63) : StpCopiedAfter(n, StpByteAt(n))

\* The same for the values 1..63, which the decoder does copy that way.
StpDirectCopyNonZero ==
    StpFileRead => \A n \in StpDirectCopies(1..63) : StpCopiedAfter(n, StpByteAt(n))

\* write has produced a file for the image.
StpFileWritten ==
    StpWritten /\ Len(content) >= StpHeaderSize(params.stpVersion)

\* The iterations of the decode loop over the written file in which a byte
\* of the file is taken as a pixel value (copied, or repeated).
StpPixelByteReads ==
    {n \in 0..(2 * Len(StpStream)) :
        /\ StpReadMore(StpTrace(n), content)
        /\ StpTrace(n).directCopySeq \/ StpTrace(n).repeatSeq}

\* C28: the encoder writes every run of transparent pixels (255) as
\* transparency control bytes (top bit set, length in the low 7 bits): no
\* byte of the file that stands for a pixel value is 255, and a run of more
\* than 127 transparent pixels starts with the control byte of a run of 127
\* followed by a further transparency control byte.
C28_StpTransparencyRuns ==
    StpFileWritten =>
        /\ \A n \in StpPixelByteReads : StpByteAt(n) # StpTransparentIndex
        /\ (Len(image.frames[1].pixels) > MAX_RUNLENGTH_TRANSPARENCY
               /\ SubSeq(image.frames[1].pixels, 1, MAX_RUNLENGTH_TRANSPARENCY + 1)
                      = Repeat(StpTransparentIndex, MAX_RUNLENGTH_TRANSPARENCY + 1)) =>
               /\ StpStream[1] = 128 + MAX_RUNLENGTH_TRANSPARENCY
               /\ BitAnd(StpStream[2], 128) = 128

(***************************************************************************)
(* Delta decoder: claims.                                                  *)
(***************************************************************************)

\* read was called on a hand-made file that holds a header.
DelFileRead ==
    /\ params.handler = "del" /\ pc = "done" /\ image.kind = "none"
    /\ Len(content) >= DEL_HEADER_SIZE_BYTES

\* The decoder state at the end of the command loop.
DelFinal == DelReadLoop(DelReadStart(content), content)

\* C29: when the commands of a Delta file produce more or fewer pixels than
\* width * height (or input is left with the output full), read throws and
\* returns no image: an image is only returned when the commands produced
\* the pixels of the frame and no more.
C29_DelAllOrNothing ==
    DelFileRead =>
        /\ DelFinal.outputPos # DelFinal.outLen => result.kind = "error"
        /\ DelFinal.inputPos < Len(content) => result.kind = "error"

\* Files whose commands produce fewer pixels than the frame has are refused.
DelTruncatedRefused ==
    (DelFileRead /\ DelFinal.outputPos < DelFinal.outLen) => result.kind = "error"

(***************************************************************************)
(* The decode loops of the Stamp and Delta readers, one iteration at a     *)
(* time.  While a loop runs, `result` holds the local variables of read    *)
(* and the number of iterations made; afterwards, what read returned.      *)
(***************************************************************************)

\* Number of bytes of the encoded streams decoded step by step.
MaxLoopStream == 4

\* Iterations after which a loop is no longer followed.
MaxIterations == 12

\* Stamp control bytes: direct copy of 0 and 2, a repeat of 2, transparency
\* runs of 0 and 3, and a pixel value.
StpLoopBytes == {0, 2, 7, 66, 128, 131}
LoopShapes == {<<0, 0>>, <<1, 1>>, <<2, 2>>}

StpLoopFiles(stpVersion, n) ==
    {(IF stpVersion = 1 THEN <<1, 0>> ELSE <<>>)
        \o WriteU16le(d[1]) \o WriteU16le(d[2]) \o <<0, 0, 0, 0>> \o stream :
        d \in LoopShapes, stream \in ByteStreams(StpLoopBytes, n)}

DelLoopFiles(n) ==
    {WriteU16le(d[1]) \o WriteU16le(d[2]) \o stream :
        d \in LoopShapes, stream \in ByteStreams(DelStreamBytes, n)}

Decoding(st) == [kind |-> "decoding", st |-> st, iterations |-> 0]

InitDecode ==
    /\ image = NoImage
    /\ \/ /\ \E v \in {1, 2} : params = [handler |-> "stp", stpVersion |-> v]
          /\ content \in StpLoopFiles(params.stpVersion, MaxLoopStream)
          /\ result = Decoding(StpReadStart(content, params.stpVersion))
          /\ pc = "stp-loop"
       \/ /\ params = [handler |-> "del"]
          /\ content \in DelLoopFiles(MaxLoopStream)
          /\ result = Decoding(DelReadStart(content))
          /\ pc = "del-loop"

\* One iteration of the while loop of readByVersion.
StpIterate ==
    /\ pc = "stp-loop"
    /\ result.iterations < MaxIterations
    /\ StpReadMore(result.st, content)
    /\ result' = [result EXCEPT !.st = StpReadStep(@, content), !.iterations = @ + 1]
    /\ UNCHANGED <<params, image, content, pc>>

\* The loop of readByVersion has ended: the checks after it, and the return.
StpReturn ==
    /\ pc = "stp-loop"
    /\ ~StpReadMore(result.st, content)
    /\ result' = readByVersion(content, params.stpVersion)
    /\ pc' = "done"
    /\ UNCHANGED <<params, image, content>>

\* One iteration of the while loop of Image_Del.read.
DelIterate ==
    /\ pc = "del-loop"
    /\ result.iterations < MaxIterations
    /\ result.st.inputPos < Len(content)
    /\ result' = [result EXCEPT !.st = DelReadStep(@, content), !.iterations = @ + 1]
    /\ UNCHANGED <<params, image, content, pc>>

\* The loop of Image_Del.read has ended: the checks after it, and the return.
DelReturn ==
    /\ pc = "del-loop"
    /\ result.st.inputPos >= Len(content)
    /\ result' = Image_Del_read(content)
    /\ pc' = "done"
    /\ UNCHANGED <<params, image, content>>

NextDecode == StpIterate \/ StpReturn \/ DelIterate \/ DelReturn

SpecDecode == InitDecode /\ [][NextDecode]_vars

(***************************************************************************)
(* The decode loops: claims.                                               *)
(***************************************************************************)

\* A step that is one iteration of a decode loop.
LoopIteration == pc \in {"stp-loop", "del-loop"} /\ pc' = pc /\ result' # result

\* The pixels a decoder has emitted.
Emitted(st) == IF params.handler = "stp" THEN Len(st.out) ELSE st.outputPos

\* The length of the encoded stream after the header.
LoopStream ==
    Len(content) - (IF params.handler = "stp" THEN StpHeaderSize(params.stpVersion)
                    ELSE DEL_HEADER_SIZE_BYTES)

\* The iteration ends a Stamp transparency run of length 0 (control byte
\* 0x80): nothing is read and nothing is emitted.
EndsEmptyRun ==
    /\ params.handler = "stp"
    /\ result.st.transparencySeq /\ result.st.count = 0
    /\ ~result'.st.transparencySeq

\* C26: every iteration of the decode loops of the Stamp and Delta readers
\* reads at least one input byte or emits at least one pixel of a pending
\* run, the input position never goes back, and the number of iterations is
\* at most the input length plus the output length (so the loops end).
C26_LinearPass ==
    [][LoopIteration =>
          /\ result'.st.inputPos >= result.st.inputPos
          /\ \/ result'.st.inputPos > result.st.inputPos
             \/ Emitted(result'.st) > Emitted(result.st)
          /\ result'.iterations <= Len(content) + result.st.outLen]_vars

\* What is left to do of a decode loop: the input bytes not yet read,
\* counted twice, and the pending run of a Stamp decoder.
LoopVariant(st) ==
    2 * Max(0, Len(content) - st.inputPos)
        + (IF params.handler = "stp" /\ ~StpSeeking(st) THEN 1 ELSE 0)

\* C26 as the readers have it: an iteration reads input, emits pixels or
\* ends an empty transparency run; the input position never goes back; the
\* iterations are at most twice the bytes of the stream (as many, for
\* Delta); and every iteration brings the loop nearer to its end.
C26_LinearPassAmended ==
    [][LoopIteration =>
          /\ result'.st.inputPos >= result.st.inputPos
          /\ \/ result'.st.inputPos > result.st.inputPos
             \/ Emitted(result'.st) > Emitted(result.st)
             \/ EndsEmptyRun
          /\ result'.iterations <=
                 (IF params.handler = "stp" THEN 2 ELSE 1) * LoopStream
          /\ result'.iterations < MaxIterations
          /\ LoopVariant(result'.st) < LoopVariant(result.st)]_vars

\* A Stamp stream of empty transparency runs alone was decoded in twice as
\* many iterations as it has bytes.
C26_Witness ==
    /\ pc = "stp-loop"
    /\ ~StpReadMore(result.st, content)
    /\ LoopStream >= MaxLoopStream
    /\ result.iterations = 2 * LoopStream

=============================================================================
